---- MODULE Spec2Model ----
(***************************************************************************)
(* A model of distill4_normalize.py: the event-log replay and              *)
(* normalization engine (Distill4Inst) and its driver process_file.        *)
(*                                                                         *)
(* Conventions                                                             *)
(*  - a Python str is a sequence of one-character strings;                 *)
(*  - a Python list is a sequence; positions reported by the program are   *)
(*    0-based, as in the source, so position p is element p+1 here;        *)
(*  - a call that may raise yields [ok, val, err]: ok is FALSE when the    *)
(*    call raised and err then names the exception;                        *)
(*  - Python None is the string NONE where a name is expected and a record *)
(*    with isNone = TRUE where a text or a record is expected.             *)
(***************************************************************************)
EXTENDS Integers, Sequences, FiniteSets, TLC

VARIABLES events, triples, characters, utterance_history, out, num_triples_in,
          pos, last, ret, arg, res, pc, hashseed

vars == <<events, triples, characters, utterance_history, out, num_triples_in,
          pos, last, ret, arg, res, pc, hashseed>>

sessionVars == <<events, triples, characters, utterance_history, out,
                 num_triples_in, pos, last, ret, hashseed>>

(***************************************************************************)
(* Results of calls that may raise.                                        *)
(***************************************************************************)
Ok(v) == [ok |-> TRUE, val |-> v, err |-> ""]

Raise(e) == [ok |-> FALSE, val |-> 0, err |-> e]

NONE == "<None>"

\* an optional str: Python None, or the string s
NoneText == [isNone |-> TRUE, text |-> <<>>]

Text(s) == [isNone |-> FALSE, text |-> s]

(***************************************************************************)
(* Strings.                                                                *)
(***************************************************************************)
RECURSIVE Concat(_)
Concat(ss) == IF ss = <<>> THEN <<>> ELSE Head(ss) \o Concat(Tail(ss))

\* s[i..] starts with p (i is 1-based)
StartsAt(s, p, i) ==
    /\ i + Len(p) - 1 <= Len(s)
    /\ \A k \in 1..Len(p) : s[i + k - 1] = p[k]

\* str.find: the 1-based position of the first occurrence of p in s, 0 if none
Find(s, p) ==
    IF \E i \in 1..(Len(s) + 1) : StartsAt(s, p, i)
    THEN CHOOSE i \in 1..(Len(s) + 1) :
            /\ StartsAt(s, p, i)
            /\ \A j \in 1..(i - 1) : ~StartsAt(s, p, j)
    ELSE 0

\* Python's `p in s` on strings
Contains(s, p) == Find(s, p) # 0

(***************************************************************************)
(* Events.  Every event carries the fields the program reads from any kind *)
(* of event; a field an event kind does not have holds a default.          *)
(***************************************************************************)
Some(n) == [none |-> FALSE, v |-> n]

NoneInt == [none |-> TRUE, v |-> 0]

(***************************************************************************)
(* Actors.  shape is the form normalize_actor dispatches on:               *)
(*   "none"       Python None                                              *)
(*   "str"        a bare string (an unresolved target)                     *)
(*   "character"  a raw character payload: has "owner", no "type"          *)
(*   "monster"    a raw monster template: no "owner", no "type"            *)
(*   "typed"      a serialized combatant: has "type" (field kind)          *)
(*   "combatant"  a Combatant object (field kind is its class)             *)
(* kind is "player", "monster", "group" or "common".  owner and upstream   *)
(* are the character's key (character_owner, character_id of a typed       *)
(* player); has_upstream is FALSE for a payload without "upstream".        *)
(***************************************************************************)
BlankActor ==
    [shape |-> "none", kind |-> "", name |-> NONE, owner |-> 0, upstream |-> 0,
     has_upstream |-> FALSE, hp |-> NoneInt, max_hp |-> NoneInt, temp_hp |-> 0,
     race |-> NONE, class_ |-> NONE, monster_name |-> NONE,
     description |-> NONE, effects |-> <<>>, attacks |-> <<>>,
     spells |-> <<>>, actions |-> <<>>, controller_id |-> 0]

NoActor == BlankActor

BlankEvent ==
    [event_type |-> "", message_id |-> 0, author_id |-> "", author_bot |-> FALSE,
     content |-> <<>>, prefix |-> <<>>, interaction_id |-> 0,
     caster |-> NoActor, targets |-> <<>>,
     snippet_name |-> <<>>, content_after |-> <<>>,
     author_name |-> "", embeds |-> <<>>, automation_result |-> <<>>,
     data |-> <<>>]

\* Python None where an event is expected
NoEvent == [BlankEvent EXCEPT !.event_type = "<None>"]

Message(mid, author, bot, content) ==
    [BlankEvent EXCEPT !.event_type = "message", !.message_id = mid,
                       !.interaction_id = mid,
                       !.author_id = author, !.author_bot = bot,
                       !.content = content]

Command(mid, author, prefix, content, caster) ==
    [BlankEvent EXCEPT !.event_type = "command", !.message_id = mid,
                       !.interaction_id = mid, !.author_id = author,
                       !.prefix = prefix, !.content = content,
                       !.caster = caster]

\* automation_result holds <<tree>>, data holds <<snapshot>>
AutomationRun(mid, caster, targets, tree) ==
    [BlankEvent EXCEPT !.event_type = "automation_run", !.interaction_id = mid,
                       !.caster = caster, !.targets = targets,
                       !.automation_result = <<tree>>]

CombatStateUpdate(snapshot) ==
    [BlankEvent EXCEPT !.event_type = "combat_state_update",
                       !.data = <<snapshot>>]

SnippetResolution(mid, name, after) ==
    [BlankEvent EXCEPT !.event_type = "snippet_resolution",
                       !.interaction_id = mid, !.snippet_name = name,
                       !.content_after = after]

SeqsUpTo(S, n) == UNION {[1..k -> S] : k \in 0..n}

\* the data model's invariant: message ids strictly increase along the log
MessageIdsIncrease(evs) ==
    \A i, j \in 1..Len(evs) :
        (i < j /\ evs[i].event_type = "message" /\ evs[j].event_type = "message")
            => evs[i].message_id < evs[j].message_id

\* the session part of the state while a single operation is exercised
SessionIdle ==
    /\ events = <<>>
    /\ triples = <<>>
    /\ characters = <<>>
    /\ utterance_history = <<>>
    /\ out = <<>>
    /\ num_triples_in = 0
    /\ pos = 0
    /\ last = "none"
    /\ ret = <<>>
    /\ hashseed = 0

(***************************************************************************)
(* Distill4Inst.event_index                                                *)
(***************************************************************************)
\* the positions (1-based) of the message entries with the argument's id
MessageMatches(evs, event) ==
    {i \in 1..Len(evs) : /\ evs[i].event_type = "message"
                         /\ evs[i].message_id = event.message_id}

\* list.index: the positions (1-based) of the entries equal to the argument
EqualMatches(evs, event) == {i \in 1..Len(evs) : evs[i] = event}

Min(S) == CHOOSE x \in S : \A y \in S : x <= y

Max(S) == CHOOSE x \in S : \A y \in S : x >= y

\* list.index for every kind of event: what the source's comment warns against
event_index_ByEquality(evs, event) ==
    IF EqualMatches(evs, event) = {}
    THEN Raise("ValueError")
    ELSE Ok(Min(EqualMatches(evs, event)) - 1)

event_index(evs, event) ==
    IF event.event_type = "message"
    THEN IF MessageMatches(evs, event) = {}
         THEN Raise("StopIteration")
         ELSE Ok(Min(MessageMatches(evs, event)) - 1)
    ELSE IF EqualMatches(evs, event) = {}
         THEN Raise("ValueError")
         ELSE Ok(Min(EqualMatches(evs, event)) - 1)

(***************************************************************************)
(* Instance (heuristics.utils): the log's derived views.                   *)
(***************************************************************************)
\* the positions (1-based) of the events of a kind
PositionsOfType(evs, type) == {i \in 1..Len(evs) : evs[i].event_type = type}

\* Instance.find: the first event satisfying the predicate at a position
\* strictly after `after` and before `before` (0-based), or None
FindIn(evs, Matching, after, before) ==
    LET S == {i \in 1..Len(evs) : i - 1 > after /\ i - 1 < before /\ i \in Matching}
    IN  IF S = {} THEN NoEvent ELSE evs[Min(S)]

\* Instance.combat_state_at_event: the latest combat_state_update at or
\* before the event's position p (0-based), or None
combat_state_at_event(evs, p) ==
    LET S == {i \in PositionsOfType(evs, "combat_state_update") : i - 1 <= p}
    IN  IF S = {} THEN NoEvent ELSE evs[Max(S)]

\* Instance.combat_state_after_event: the nearest combat_state_update after
\* the event's position p (0-based), or None
combat_state_after_event(evs, p) ==
    LET S == {i \in PositionsOfType(evs, "combat_state_update") : i - 1 > p}
    IN  IF S = {} THEN NoEvent ELSE evs[Min(S)]

\* the interaction ids of the events, in order of first occurrence
RECURSIVE InteractionIds(_, _)
InteractionIds(evs, seen) ==
    IF evs = <<>> THEN <<>>
    ELSE IF Head(evs).interaction_id \in seen
         THEN InteractionIds(Tail(evs), seen)
    ELSE <<Head(evs).interaction_id>> \o
         InteractionIds(Tail(evs), seen \cup {Head(evs).interaction_id})

InGroup(id, e) == e.interaction_id = id

\* Instance.message_groups: the events grouped by interaction id, every
\* event in exactly one group, groups and their events in log order
message_groups(evs) ==
    LET ids == InteractionIds(evs, {})
        Group(id) == LET Test(e) == InGroup(id, e) IN SelectSeq(evs, Test)
    IN  [k \in 1..Len(ids) |-> Group(ids[k])]

(***************************************************************************)
(* Distill4Inst.normalize_actor: the hp string                             *)
(***************************************************************************)
DigitChar(d) == <<"0", "1", "2", "3", "4", "5", "6", "7", "8", "9">>[d + 1]

RECURSIVE NatToStr(_)
NatToStr(n) ==
    IF n < 10 THEN <<DigitChar(n)>>
    ELSE NatToStr(n \div 10) \o <<DigitChar(n % 10)>>

\* str(n) of a Python int
IntToStr(n) == IF n < 0 THEN <<"-">> \o NatToStr(0 - n) ELSE NatToStr(n)

\* ratio = hp / max_hp raises ZeroDivisionError when max_hp is 0; the ratio is
\* kept as the exact fraction <<hp, max_hp>>.  For |hp|, max_hp < 2^50 the
\* float comparisons of the source agree with the exact ones: the quotient
\* and the literals 0.5, 0.15 are all correctly rounded, and no other
\* fraction of such integers rounds to the same double as 0.15.
Ratio(hp, max_hp) ==
    IF max_hp = 0 THEN Raise("ZeroDivisionError") ELSE Ok(<<hp, max_hp>>)

\* ratio < num/den and ratio <= num/den, for a ratio with denominator > 0
RatioLt(r, num, den) == r[1] * den < num * r[2]

RatioLe(r, num, den) == r[1] * den <= num * r[2]

\* Injured from ratio 0.5 on: the boundary moved by one comparison operator
HealthBand_InclusiveHalf(ratio) ==
    IF ~RatioLt(ratio, 1, 1)
    THEN <<"; Healthy">>
    ELSE IF ~RatioLt(ratio, 1, 2) /\ RatioLt(ratio, 1, 1)
    THEN <<"; Injured">>
    ELSE IF ~RatioLe(ratio, 15, 100) /\ RatioLe(ratio, 1, 2)
    THEN <<"; Bloodied">>
    ELSE IF ~RatioLe(ratio, 0, 1) /\ RatioLe(ratio, 15, 100)
    THEN <<"; Critical">>
    ELSE IF RatioLe(ratio, 0, 1)
    THEN <<"; Dead">>
    ELSE <<>>

\* the if/elif cascade over ratio (a fraction with denominator > 0)
HealthBand(ratio) ==
    IF ~RatioLt(ratio, 1, 1)
    THEN <<"; Healthy">>
    ELSE IF ~RatioLe(ratio, 1, 2) /\ RatioLt(ratio, 1, 1)
    THEN <<"; Injured">>
    ELSE IF ~RatioLe(ratio, 15, 100) /\ RatioLe(ratio, 1, 2)
    THEN <<"; Bloodied">>
    ELSE IF ~RatioLe(ratio, 0, 1) /\ RatioLe(ratio, 15, 100)
    THEN <<"; Critical">>
    ELSE IF RatioLe(ratio, 0, 1)
    THEN <<"; Dead">>
    ELSE <<>>

\* lines 166-190: Ok(the hp string), or the error the division raised
HpString(hp, max_hp, temp_hp) ==
    LET both == ~max_hp.none /\ ~hp.none
        ratio == Ratio(hp.v, max_hp.v)
        numeric ==
            IF both
            THEN IntToStr(hp.v) \o <<"/">> \o IntToStr(max_hp.v) \o <<" HP">>
                 \o (IF max_hp.v > 0 THEN HealthBand(ratio.val) ELSE <<>>)
            ELSE IF ~hp.none THEN IntToStr(hp.v) \o <<" HP">>
            ELSE <<>>
        wrapped == IF numeric # <<>> THEN <<"<">> \o numeric \o <<">">> ELSE <<>>
        temp == IF temp_hp # 0 /\ temp_hp > 0
                THEN <<" (+">> \o IntToStr(temp_hp) \o <<" temp)">>
                ELSE <<>>
    IN  IF both /\ max_hp.v > 0 /\ ~ratio.ok
        THEN ratio
        ELSE Ok(wrapped \o temp)

(***************************************************************************)
(* Distill4Inst.monkey_patch and normalize_actor                           *)
(***************************************************************************)
CharKey(a) == <<a.owner, a.upstream>>

\* a lookup that falls back to the serialized combatant when the key is absent
from_dict_Fallback(raw, chars) ==
    IF CharKey(raw) \notin DOMAIN chars
    THEN Ok([raw EXCEPT !.shape = "combatant", !.kind = "player"])
    ELSE LET character == chars[CharKey(raw)]
         IN  Ok([raw EXCEPT !.shape = "combatant", !.kind = "player",
                            !.hp = character.hp, !.max_hp = character.max_hp,
                            !.temp_hp = character.temp_hp,
                            !.race = character.race,
                            !.class_ = character.class_,
                            !.description = character.description,
                            !.attacks = character.attacks,
                            !.spells = character.spells,
                            !.actions = character.actions])

\* the patched PlayerCombatant.from_dict: the combatant takes its character
\* from the session cache and raises NoCharacter when the key is absent
from_dict(raw, chars) ==
    IF CharKey(raw) \notin DOMAIN chars
    THEN Raise("NoCharacter")
    ELSE LET character == chars[CharKey(raw)]
         IN  Ok([raw EXCEPT !.shape = "combatant", !.kind = "player",
                            !.hp = character.hp, !.max_hp = character.max_hp,
                            !.temp_hp = character.temp_hp,
                            !.race = character.race,
                            !.class_ = character.class_,
                            !.description = character.description,
                            !.attacks = character.attacks,
                            !.spells = character.spells,
                            !.actions = character.actions])

\* lines 126-144: make everything a Combatant
ToCombatant(actor, chars) ==
    CASE actor.shape = "combatant" -> Ok(actor)
      [] actor.shape = "character" ->
            Ok([actor EXCEPT !.shape = "combatant", !.kind = "player",
                             !.effects = <<>>, !.controller_id = 0])
      [] actor.shape = "monster" ->
            Ok([actor EXCEPT !.shape = "combatant", !.kind = "monster",
                             !.monster_name = actor.name,
                             !.effects = <<>>, !.controller_id = 0])
      [] actor.shape = "typed" ->
            IF actor.kind = "player"
            THEN from_dict(actor, chars)
            ELSE Ok([actor EXCEPT !.shape = "combatant"])
      [] OTHER -> Raise("TypeError")

\* ", ".join(names)
RECURSIVE JoinComma(_)
JoinComma(names) ==
    IF names = <<>> THEN <<>>
    ELSE IF Len(names) = 1 THEN <<names[1]>>
    ELSE <<names[1], ", ">> \o JoinComma(Tail(names))

\* the names of a sequence, each once, by first occurrence
RECURSIVE Distinct(_)
Distinct(names) ==
    IF names = <<>> THEN <<>>
    ELSE LET front == Distinct(SubSeq(names, 1, Len(names) - 1))
             x == names[Len(names)]
         IN  IF \E i \in 1..Len(front) : front[i] = x THEN front
             ELSE Append(front, x)

\* the order in which a set of strings is iterated: it depends on the hash
\* seed of the process; seed numbers the permutations of the elements
RECURSIVE IterationOrder(_, _)
IterationOrder(elems, seed) ==
    IF elems = <<>> THEN <<>>
    ELSE LET i == (seed % Len(elems)) + 1
         IN  <<elems[i]>> \o
             IterationOrder(SubSeq(elems, 1, i - 1) \o
                            SubSeq(elems, i + 1, Len(elems)),
                            seed \div Len(elems))

\* the hash seeds told apart: enough for every order of two names
HashSeeds == 0..1

\* set(names), as the sequence its iteration yields
set(names) == IterationOrder(Distinct(names), hashseed)

\* the names of the prepared spells, in spellbook order
RECURSIVE PreparedNames(_)
PreparedNames(spells) ==
    IF spells = <<>> THEN <<>>
    ELSE (IF Head(spells).prepared THEN <<Head(spells).name>> ELSE <<>>)
         \o PreparedNames(Tail(spells))

\* lines 152-164: race of a combatant that is a monster
MonsterRace_Null(combatant) == NONE

MonsterRace(combatant) == combatant.monster_name

normalize_actor(actor, chars) ==
    LET c == ToCombatant(actor, chars)
    IN  IF ~c.ok THEN c
        ELSE LET combatant == c.val
                 hp == HpString(combatant.hp, combatant.max_hp, combatant.temp_hp)
                 player == combatant.kind = "player"
                 race == CASE player -> combatant.race
                           [] combatant.kind = "monster" -> MonsterRace(combatant)
                           [] combatant.kind = "group" -> "Group"
                           [] OTHER -> NONE
             IN  IF ~hp.ok THEN hp
                 ELSE Ok([name |-> combatant.name, hp |-> hp.val,
                          class_ |-> IF player THEN combatant.class_ ELSE NONE,
                          race |-> race,
                          attacks |-> JoinComma(combatant.attacks),
                          spells |-> JoinComma(set(PreparedNames(combatant.spells))),
                          actions |-> IF player
                                      THEN Text(JoinComma(set(combatant.actions)))
                                      ELSE NoneText,
                          effects |-> JoinComma(combatant.effects),
                          description |-> IF player THEN combatant.description
                                          ELSE NONE,
                          controller_id |-> IntToStr(combatant.controller_id)])

(***************************************************************************)
(* Distill4Inst.normalize_message: the two re.sub steps (lines 339-343)    *)
(***************************************************************************)
MinIdDigits == 17

MaxIdDigits == 20

IsDigit(c) == c \in {"0", "1", "2", "3", "4", "5", "6", "7", "8", "9"}

\* the number of digits of s from position j on
RECURSIVE DigitRun(_, _)
DigitRun(s, j) ==
    IF j <= Len(s) /\ IsDigit(s[j]) THEN 1 + DigitRun(s, j + 1) ELSE 0

\* \d{17,20}> at position j: the length matched, 0 when there is no match
\* (the greedy run must end at the ">", so the whole run has 17 to 20 digits)
IdMatch(s, j) ==
    LET r == DigitRun(s, j)
    IN  IF /\ r >= MinIdDigits
           /\ r <= MaxIdDigits
           /\ j + r <= Len(s)
           /\ s[j + r] = ">"
        THEN r + 1
        ELSE 0

\* <(@[!&]?|#)\d{17,20}> at position i: the length matched, 0 when none
MentionMatch(s, i) ==
    IF i > Len(s) \/ s[i] # "<" THEN 0
    ELSE LET sigil ==
                 IF i + 1 > Len(s) THEN 0
                 ELSE IF s[i + 1] = "#" THEN 1
                 ELSE IF s[i + 1] = "@"
                      THEN IF i + 2 <= Len(s) /\ s[i + 2] \in {"!", "&"}
                           THEN 2 ELSE 1
                 ELSE 0
             id == IdMatch(s, i + 1 + sigil)
         IN  IF sigil = 0 \/ id = 0 THEN 0 ELSE 1 + sigil + id

\* re.sub(pattern, "", s) from position i on: leftmost matches, left to right,
\* the scan resuming after each match
RECURSIVE SubMentions(_, _)
SubMentions(s, i) ==
    IF i > Len(s) THEN <<>>
    ELSE IF MentionMatch(s, i) > 0 THEN SubMentions(s, i + MentionMatch(s, i))
    ELSE <<s[i]>> \o SubMentions(s, i + 1)

\* re.sub(..., count=1): only the first mention is removed
RECURSIVE SubFirstMention(_, _)
SubFirstMention(s, i) ==
    IF i > Len(s) THEN <<>>
    ELSE IF MentionMatch(s, i) > 0
         THEN SubSeq(s, i + MentionMatch(s, i), Len(s))
    ELSE <<s[i]>> \o SubFirstMention(s, i + 1)

strip_mentions_First(content) == SubFirstMention(content, 1)

\* line 340
strip_mentions(content) == SubMentions(content, 1)

IsWordChar(c) ==
    IsDigit(c) \/ c \in {"_", "a", "b", "c", "d", "e", "h", "i", "o", "x", "y"}

\* the number of \w characters of s from position j on
RECURSIVE WordRun(_, _)
WordRun(s, j) ==
    IF j <= Len(s) /\ IsWordChar(s[j]) THEN 1 + WordRun(s, j + 1) ELSE 0

\* <a?(:\w+?:)\d{17,20}> at position i: [len, from, to], len the length
\* matched (0 when none) and s[from..to] the group (:name:)
EmojiMatch(s, i) ==
    LET none == [len |-> 0, from |-> 0, to |-> 0]
        colon == IF i + 2 <= Len(s) /\ s[i + 1] = "a" /\ s[i + 2] = ":"
                 THEN i + 2 ELSE i + 1
        w == WordRun(s, colon + 1)
        close == colon + 1 + w
        id == IdMatch(s, close + 1)
    IN  IF i > Len(s) \/ s[i] # "<" THEN none
        ELSE IF colon > Len(s) \/ s[colon] # ":" THEN none
        ELSE IF w = 0 \/ close > Len(s) \/ s[close] # ":" THEN none
        ELSE IF id = 0 THEN none
        ELSE [len |-> close + id - i + 1, from |-> colon, to |-> close]

\* re.sub(pattern, r"\1", s) from position i on
RECURSIVE SubEmoji(_, _)
SubEmoji(s, i) ==
    IF i > Len(s) THEN <<>>
    ELSE LET m == EmojiMatch(s, i)
         IN  IF m.len > 0
             THEN SubSeq(s, m.from, m.to) \o SubEmoji(s, i + m.len)
             ELSE <<s[i]>> \o SubEmoji(s, i + 1)

\* line 343
collapse_emoji(content) == SubEmoji(content, 1)

ProxyWindow == 16

\* lines 317-325: the positions (1-based) of the proxy candidates of msg
ProxyCandidates(evs, msg) ==
    {i \in 1..Len(evs) :
        /\ evs[i].event_type = "message"
        /\ evs[i].author_id # msg.author_id
        /\ Contains(msg.content, evs[i].content)
        /\ evs[i].content # <<>>
        /\ evs[i].author_bot}

\* the ratio test with the lower end included
ProxyReplaces_AtLeast(similar_content, content) ==
    /\ 10 * Len(similar_content) >= 7 * Len(content)
    /\ Len(similar_content) < Len(content)

\* lines 326-337: 0.7 < len(similar) / len(content) < 1
ProxyReplaces(similar_content, content) ==
    /\ 10 * Len(similar_content) > 7 * Len(content)
    /\ Len(similar_content) < Len(content)

\* lines 313-347: Ok(the normalized text), or the error of event_index
normalize_message(evs, msg, include_author_name) ==
    LET msg_idx == event_index(evs, msg)
        similar_message == FindIn(evs, ProxyCandidates(evs, msg), msg_idx.val,
                                  msg_idx.val + ProxyWindow)
        content == IF /\ similar_message # NoEvent
                      /\ ProxyReplaces(similar_message.content, msg.content)
                   THEN similar_message.content
                   ELSE msg.content
        clean == collapse_emoji(strip_mentions(content))
    IN  IF ~msg_idx.ok THEN msg_idx
        ELSE IF include_author_name
             THEN Ok(<<msg.author_name, ": ">> \o clean)
        ELSE Ok(clean)

(***************************************************************************)
(* Distill4Inst.normalize_command_group                                    *)
(***************************************************************************)
\* str.replace(old, new, count); count < 0 replaces every occurrence
RECURSIVE Replace(_, _, _, _)
Replace(s, old, new, count) ==
    IF count = 0 THEN s
    ELSE IF old = <<>>
         THEN new \o (IF s = <<>> THEN <<>>
                      ELSE <<Head(s)>> \o
                           (IF Tail(s) = <<>> /\ count # 1 THEN new
                            ELSE Replace(Tail(s), old, new, count - 1)))
    ELSE IF Find(s, old) = 0 THEN s
    ELSE SubSeq(s, 1, Find(s, old) - 1) \o new \o
         Replace(SubSeq(s, Find(s, old) + Len(old), Len(s)), old, new, count - 1)

\* content.replace(prefix, "!") without the count
normalize_prefix_All(content, prefix) == Replace(content, prefix, <<"!">>, 0 - 1)

\* line 357
normalize_prefix(content, prefix) == Replace(content, prefix, <<"!">>, 1)

\* MessageGroup.find_event_of_type: the first event of the kind, or none
FirstOfType(evs, type) ==
    LET S == {i \in 1..Len(evs) : evs[i].event_type = type}
    IN  IF S = {} THEN 0 ELSE Min(S)

IsOfType(type, e) == e.event_type = type

\* find_all_of_type: the events of the kind, in log order
find_all_of_type(evs, type) ==
    LET Test(e) == IsOfType(type, e) IN SelectSeq(evs, Test)

IsSpace(c) == c = " "

\* lines 362-365: argsplit(content), or content.split() when it raises; for
\* text without quotes and backslashes both give the maximal runs of
\* non-whitespace characters
RECURSIVE Split(_, _)
Split(s, word) ==
    IF s = <<>> THEN (IF word = <<>> THEN <<>> ELSE <<word>>)
    ELSE IF IsSpace(Head(s))
         THEN (IF word = <<>> THEN <<>> ELSE <<word>>) \o Split(Tail(s), <<>>)
    ELSE Split(Tail(s), word \o <<Head(s)>>)

\* " ".join(words)
RECURSIVE JoinSpace(_)
JoinSpace(words) ==
    IF words = <<>> THEN <<>>
    ELSE IF Len(words) = 1 THEN words[1]
    ELSE words[1] \o <<" ">> \o JoinSpace(Tail(words))

\* every word equal to the snippet's name replaced (no break)
ExpandSnippet_All(words, snippet) ==
    [i \in 1..Len(words) |->
        IF words[i] = snippet.snippet_name THEN snippet.content_after
        ELSE words[i]]

\* lines 366-370: the first word equal to the snippet's name is replaced
ExpandSnippet(words, snippet) ==
    LET S == {i \in 1..Len(words) : words[i] = snippet.snippet_name}
    IN  IF S = {} THEN words
        ELSE [words EXCEPT ![Min(S)] = snippet.content_after]

RECURSIVE ExpandSnippets(_, _)
ExpandSnippets(words, snippets) ==
    IF snippets = <<>> THEN words
    ELSE ExpandSnippets(ExpandSnippet(words, Head(snippets)), Tail(snippets))

normalize_command_group(group) ==
    LET c == FirstOfType(group, "command")
        command == group[c]
        content == normalize_prefix(command.content, command.prefix)
        snippet_resolutions == find_all_of_type(group, "snippet_resolution")
    IN  IF c = 0 THEN NoneText
        ELSE IF snippet_resolutions # <<>>
             THEN Text(JoinSpace(ExpandSnippets(Split(content, <<>>),
                                                snippet_resolutions)))
        ELSE Text(content)

(***************************************************************************)
(* Distill4Inst.stringify_automation_run: the resolution tree              *)
(*                                                                         *)
(* A node carries the fields of every node kind; kids is its "children"    *)
(* or "results"; complete is FALSE when a key its case pattern names is    *)
(* missing, so that no case matches.                                       *)
(***************************************************************************)
NL == "\n"

BlankNode ==
    [type |-> "", kids |-> <<>>, complete |-> TRUE, target_type |-> "",
     target_index |-> NoneInt, did_hit |-> FALSE, did_crit |-> FALSE,
     amount |-> 0, ability |-> <<>>, label |-> "", success |-> FALSE,
     contest |-> NONE]

Node(type) == [BlankNode EXCEPT !.type = type]

Damage(n) == [Node("damage") EXCEPT !.amount = n]

Attack(hit, crit) == [Node("attack") EXCEPT !.did_hit = hit, !.did_crit = crit]

Save(ability, success) ==
    [Node("save") EXCEPT !.ability = ability, !.success = success]

Check(skill, success, contest) ==
    [Node("check") EXCEPT !.label = skill, !.success = success,
                          !.contest = contest]

IterSelf == [Node("target_iteration") EXCEPT !.target_type = "self"]

IterIndex(i) ==
    [Node("target_iteration") EXCEPT !.target_type = "each",
                                     !.target_index = Some(i)]

Root(kids) == [Node("root") EXCEPT !.kids = kids]

\* str(x) inside an f-string: None prints as "None"
Fmt(x) == IF x = NONE THEN "None" ELSE x

UpperOf(c) ==
    CASE c = "d" -> "D" [] c = "s" -> "S" [] c = "w" -> "W" [] c = "c" -> "C"
      [] OTHER -> c

LowerOf(c) ==
    CASE c = "D" -> "d" [] c = "S" -> "s" [] c = "W" -> "w" [] c = "C" -> "c"
      [] OTHER -> c

\* str.title() of a single word
Title(w) == [i \in 1..Len(w) |-> IF i = 1 THEN UpperOf(w[i]) ELSE LowerOf(w[i])]

\* ability[:-4]
DropLast4(w) == SubSeq(w, 1, Len(w) - 4)

\* the base sentence of a node, with current_target as it is when the
\* f-string is evaluated
BaseSentence(caster, node, current_target) ==
    CASE node.type = "attack" ->
            <<Fmt(caster), " attacked ", Fmt(current_target), " ">> \o
            (IF node.did_crit THEN <<"and crit!">>
             ELSE IF node.did_hit THEN <<"and hit.">>
             ELSE <<"but missed.">>)
      [] node.type = "save" ->
            <<Fmt(current_target), " rolled a ">> \o
            Title(DropLast4(node.ability)) \o <<" save ">> \o
            (IF node.success THEN <<"and succeeded.">> ELSE <<"but failed.">>)
      [] node.type = "damage" ->
            IF node.amount < 0
            THEN <<Fmt(current_target), " healed for ">> \o
                 IntToStr(node.amount) \o <<" health.">>
            ELSE <<Fmt(current_target), " took ">> \o
                 IntToStr(node.amount) \o <<" damage.">>
      [] node.type = "temphp" ->
            <<Fmt(current_target), " gained ">> \o IntToStr(node.amount) \o
            <<" temp HP.">>
      [] node.type = "ieffect" ->
            <<Fmt(current_target), " gained ", node.label, ".">>
      [] node.type = "remove_ieffect" ->
            <<Fmt(current_target), " is no longer ", node.label, ".">>
      [] node.type = "check" /\ node.contest = NONE ->
            <<Fmt(current_target), " rolled a ", node.label, " check ">> \o
            (IF node.success THEN <<"and succeeded.">> ELSE <<"but failed.">>)
      [] node.type = "check" /\ node.contest # NONE ->
            <<Fmt(current_target), " rolled a ", node.label,
              " contest against ", Fmt(caster), "'s ", node.contest, " ">> \o
            (IF node.success THEN <<"and succeeded.">> ELSE <<"but failed.">>)

\* the outcome of stringify / stringify_many: err is "" unless the call
\* raised; isNone and text are the value returned; cur is current_target,
\* the variable shared by all calls (nonlocal), after the call
Rendered(isNone, text, cur) ==
    [err |-> "", isNone |-> isNone, text |-> text, cur |-> cur]

Failed(e, cur) == [err |-> e, isNone |-> TRUE, text |-> <<>>, cur |-> cur]

\* "\n".join(out + [text])
JoinLine(joined, n, text) ==
    IF n = 0 THEN text ELSE joined \o <<NL>> \o text

\* targets[i] of a Python list: Ok(the element), or IndexError
ListGet(list, i) ==
    IF i >= 0 /\ i < Len(list) THEN Ok(list[i + 1])
    ELSE IF i < 0 /\ 0 - i <= Len(list) THEN Ok(list[Len(list) + i + 1])
    ELSE Raise("IndexError")

RECURSIVE stringify(_, _, _, _)
RECURSIVE stringify_loop(_, _, _, _, _, _)

\* lines 218-221: the loop of stringify_many from child i on; joined holds
\* the n results appended so far
stringify_loop(caster, targets, nodes, i, acc, cur) ==
    IF i > Len(nodes) THEN Rendered(FALSE, acc.joined, cur)
    ELSE LET r == stringify(caster, targets, nodes[i], cur)
         IN  IF r.err # "" THEN r
             ELSE IF ~r.isNone /\ r.text # <<>>
                  THEN stringify_loop(caster, targets, nodes, i + 1,
                                      [joined |-> JoinLine(acc.joined, acc.n, r.text),
                                       n |-> acc.n + 1],
                                      r.cur)
             ELSE stringify_loop(caster, targets, nodes, i + 1, acc, r.cur)

stringify_many(caster, targets, nodes, cur) ==
    stringify_loop(caster, targets, nodes, 1, [joined |-> <<>>, n |-> 0], cur)

\* lines 231-241 without `current_target = previous_target`
target_iteration_NoRestore(caster, targets, node, cur, target) ==
    stringify_many(caster, targets, node.kids, target)

\* lines 231-241: a target_iteration branch with its target
target_iteration(caster, targets, node, cur, target) ==
    LET previous_target == cur
        result == stringify_many(caster, targets, node.kids, target)
    IN  IF result.err # "" THEN result
        ELSE [result EXCEPT !.cur = previous_target]

\* lines 223-284
stringify(caster, targets, node, cur) ==
    IF ~node.complete THEN Rendered(TRUE, <<>>, cur)
    ELSE CASE node.type \in {"root", "condition", "spell", "target"} ->
                stringify_many(caster, targets, node.kids, cur)
           [] node.type = "target_iteration" /\ node.target_type = "self" ->
                target_iteration(caster, targets, node, cur, caster)
           [] /\ node.type = "target_iteration"
              /\ node.target_type # "self"
              /\ ~node.target_index.none ->
                LET t == ListGet(targets, node.target_index.v)
                IN  IF ~t.ok THEN Failed(t.err, cur)
                    ELSE target_iteration(caster, targets, node, cur, t.val)
           [] node.type \in {"attack", "save", "check"} ->
                LET children == stringify_many(caster, targets, node.kids, cur)
                IN  IF children.err # "" THEN children
                    ELSE Rendered(FALSE,
                                  BaseSentence(caster, node, children.cur)
                                      \o <<NL>> \o children.text,
                                  children.cur)
           [] node.type \in {"damage", "temphp", "ieffect", "remove_ieffect"} ->
                Rendered(FALSE, BaseSentence(caster, node, cur), cur)
           [] OTHER -> Rendered(TRUE, <<>>, cur)

\* lines 214 and 286: current_target starts as None
stringify_tree(caster, targets, tree) == stringify(caster, targets, tree, NONE)

(***************************************************************************)
(* Distill4Inst.stringify_automation_run: the display message             *)
(***************************************************************************)
AVRAE_ID == "avrae"

Embed(title, fields) ==
    [has_title |-> TRUE, title |-> title, has_fields |-> TRUE, fields |-> fields]

\* the event's targets as names: t["name"], or t itself when t is a string
TargetNames(event) == [i \in 1..Len(event.targets) |-> event.targets[i].name]

Range(f) == {f[i] : i \in DOMAIN f}

\* lines 292-301: the positions (1-based) of the display messages of a run
EmbedCandidates(evs, caster, targets) ==
    {i \in 1..Len(evs) :
        /\ evs[i].event_type = "message"
        /\ evs[i].author_id = AVRAE_ID
        /\ evs[i].content = <<>>
        /\ Len(evs[i].embeds) = 1
        /\ evs[i].embeds[1].has_title
        /\ evs[i].embeds[1].has_fields
        /\ \/ Contains(evs[i].embeds[1].title, <<caster>>)
           \/ Range(targets) \subseteq Range(evs[i].embeds[1].fields)}

\* message_groups_by_id[interaction_id].message: the position (1-based) of the
\* message that triggered the interaction, 0 when the id names no group
GroupMessage(evs, id) ==
    LET S == {i \in 1..Len(evs) : /\ evs[i].event_type = "message"
                                  /\ evs[i].message_id = id}
    IN  IF S = {} THEN 0 ELSE Min(S)

\* lines 205-310: Ok([text, embed_event]) or the error raised
stringify_automation_run(evs, event) ==
    LET caster == event.caster.name
        targets == TargetNames(event)
        automation_str == stringify_tree(caster, targets, event.automation_result[1])
        message == GroupMessage(evs, event.interaction_id)
        embed_event == FindIn(evs, EmbedCandidates(evs, caster, targets),
                              message - 1, Len(evs))
        embed_title == IF embed_event = NoEvent THEN <<>>
                       ELSE embed_event.embeds[1].title \o <<NL>>
    IN  IF event.caster.shape = "none" THEN Raise("TypeError")
        ELSE IF automation_str.err # "" THEN Raise(automation_str.err)
        ELSE IF message = 0 THEN Raise("KeyError")
        ELSE IF automation_str.isNone THEN Raise("TypeError")
        ELSE Ok([text |-> embed_title \o automation_str.text,
                 embed_event |-> embed_event])

(***************************************************************************)
(* Distill4Inst.extract_characters_forward / _backward                     *)
(***************************************************************************)
\* a key already in the cache keeps its character
extract_character_from_event_KeepFirst(chars, event) ==
    IF event.event_type \notin {"command", "automation_run"} THEN chars
    ELSE IF event.caster.shape = "none" \/ ~event.caster.has_upstream THEN chars
    ELSE IF CharKey(event.caster) \in DOMAIN chars THEN chars
    ELSE [k \in DOMAIN chars \cup {CharKey(event.caster)} |->
             IF k = CharKey(event.caster) THEN event.caster ELSE chars[k]]

\* lines 103-111
extract_character_from_event(chars, event) ==
    IF event.event_type \notin {"command", "automation_run"} THEN chars
    ELSE IF event.caster.shape = "none" \/ ~event.caster.has_upstream THEN chars
    ELSE [k \in DOMAIN chars \cup {CharKey(event.caster)} |->
             IF k = CharKey(event.caster) THEN event.caster ELSE chars[k]]

\* the events at positions from, from + step, ... up to `to` (1-based)
RECURSIVE ExtractRange(_, _, _, _, _)
ExtractRange(chars, evs, from, to, step) ==
    IF (step > 0 /\ from > to) \/ (step < 0 /\ from < to) THEN chars
    ELSE ExtractRange(extract_character_from_event(chars, evs[from]), evs,
                      from + step, to, step)

\* a scan of the whole log, whatever `until` is
extract_characters_forward_WholeLog(chars, evs, idx) ==
    ExtractRange(chars, evs, 1, Len(evs), 1)

\* lines 113-117: events[:idx], idx the 0-based position of `until`
extract_characters_forward(chars, evs, idx) == ExtractRange(chars, evs, 1, idx, 1)

\* lines 119-123: events[:idx:-1], from the last event down to idx + 1
extract_characters_backward(chars, evs, idx) ==
    ExtractRange(chars, evs, Len(evs), idx + 2, 0 - 1)

(***************************************************************************)
(* Distill4Inst.process_triple                                             *)
(***************************************************************************)
MaxWindow == 5

\* list.sort(key=int(message_id)): a stable insertion sort
RECURSIVE InsertById(_, _)
InsertById(sorted, m) ==
    IF sorted = <<>> THEN <<m>>
    ELSE IF sorted[Len(sorted)].message_id <= m.message_id
         THEN Append(sorted, m)
    ELSE Append(InsertById(SubSeq(sorted, 1, Len(sorted) - 1), m),
                sorted[Len(sorted)])

\* the list left in the order of its appends
SortById_Unsorted(msgs) == msgs

RECURSIVE SortById(_)
SortById(msgs) ==
    IF msgs = <<>> THEN <<>>
    ELSE InsertById(SortById(SubSeq(msgs, 1, Len(msgs) - 1)), msgs[Len(msgs)])

\* list[-n:]
LastN(list, n) ==
    IF Len(list) <= n THEN list ELSE SubSeq(list, Len(list) - n + 1, Len(list))

\* [normalize_message(msg, flag) for msg in msgs]
RECURSIVE NormalizeAll(_, _, _)
NormalizeAll(evs, msgs, include_author_name) ==
    IF msgs = <<>> THEN Ok(<<>>)
    ELSE LET h == normalize_message(evs, Head(msgs), include_author_name)
             t == NormalizeAll(evs, Tail(msgs), include_author_name)
         IN  IF ~h.ok THEN h
             ELSE IF ~t.ok THEN t
             ELSE Ok(<<h.val>> \o t.val)

\* [event_index(e) for e in list]
RECURSIVE IndexAll(_, _)
IndexAll(evs, list) ==
    IF list = <<>> THEN Ok(<<>>)
    ELSE LET h == event_index(evs, Head(list))
             t == IndexAll(evs, Tail(list))
         IN  IF ~h.ok THEN h
             ELSE IF ~t.ok THEN t
             ELSE Ok(<<h.val>> \o t.val)

\* [normalize_actor(a, combat) for a in actors]
RECURSIVE NormalizeActors(_, _)
NormalizeActors(actors, chars) ==
    IF actors = <<>> THEN Ok(<<>>)
    ELSE LET h == normalize_actor(Head(actors), chars)
             t == NormalizeActors(Tail(actors), chars)
         IN  IF ~h.ok THEN h
             ELSE IF ~t.ok THEN t
             ELSE Ok(<<h.val>> \o t.val)

\* lines 406-409: the non-empty normalized command texts, in group order
RECURSIVE CommandsNorm(_)
CommandsNorm(groups) ==
    IF groups = <<>> THEN <<>>
    ELSE LET norm == normalize_command_group(Head(groups))
         IN  (IF ~norm.isNone /\ norm.text # <<>> THEN <<norm.text>> ELSE <<>>)
                 \o CommandsNorm(Tail(groups))

\* Combat.from_dict_sync: every serialized combatant is decoded (a player
\* through the patched from_dict); Ok([combatants, current]) or the error
RECURSIVE DecodeCombatants(_, _)
DecodeCombatants(raws, chars) ==
    IF raws = <<>> THEN Ok(<<>>)
    ELSE LET h == ToCombatant(Head(raws), chars)
             t == DecodeCombatants(Tail(raws), chars)
         IN  IF ~h.ok THEN h
             ELSE IF ~t.ok THEN t
             ELSE Ok(<<h.val>> \o t.val)

CombatFromDict(snapshot, chars) ==
    LET cs == DecodeCombatants(snapshot.combatants, chars)
    IN  IF ~cs.ok THEN cs
        ELSE Ok([combatants |-> cs.val, current |-> snapshot.current])

IsNotGroup(c) == c.kind # "group"

\* combat.get_combatants(groups=False)
get_combatants(combat) == SelectSeq(combat.combatants, IsNotGroup)

\* lines 425-428: the caster left by the loop: the first non-None caster,
\* None when every run's caster is None; the name is unbound without runs
LoopCaster(runs) ==
    LET S == {i \in 1..Len(runs) : runs[i].caster.shape # "none"}
    IN  IF S = {} THEN NoActor ELSE runs[Min(S)].caster

\* the targets of the runs, in order
RECURSIVE AllTargets(_)
AllTargets(runs) ==
    IF runs = <<>> THEN <<>> ELSE Head(runs).targets \o AllTargets(Tail(runs))

\* the string target skipped (`continue`) instead of ending the call
RECURSIVE NormalizeTargets_SkipString(_, _, _)
NormalizeTargets_SkipString(ts, chars, acc) ==
    IF ts = <<>> THEN [status |-> "ok", val |-> acc, err |-> ""]
    ELSE IF Head(ts).shape = "str"
         THEN NormalizeTargets_SkipString(Tail(ts), chars, acc)
    ELSE LET actor_str == normalize_actor(Head(ts), chars)
         IN  IF ~actor_str.ok
             THEN [status |-> "error", val |-> acc, err |-> actor_str.err]
             ELSE NormalizeTargets_SkipString(Tail(ts), chars,
                                              IF actor_str.val \in Range(acc) THEN acc
                                              ELSE Append(acc, actor_str.val))

\* lines 432-440: [status, val]: "null" at the first string target, "error"
\* when a target before it fails to normalize, else "ok" with the distinct
\* normalized targets in order of first occurrence
RECURSIVE NormalizeTargets(_, _, _)
NormalizeTargets(ts, chars, acc) ==
    IF ts = <<>> THEN [status |-> "ok", val |-> acc, err |-> ""]
    ELSE IF Head(ts).shape = "str"
         THEN [status |-> "null", val |-> acc, err |-> ""]
    ELSE LET actor_str == normalize_actor(Head(ts), chars)
         IN  IF ~actor_str.ok
             THEN [status |-> "error", val |-> acc, err |-> actor_str.err]
             ELSE NormalizeTargets(Tail(ts), chars,
                                   IF actor_str.val \in Range(acc) THEN acc
                                   ELSE Append(acc, actor_str.val))

\* lines 443-448: Ok([automation_norm, embed_idxs]) or the first error
RECURSIVE StringifyRuns(_, _)
StringifyRuns(evs, runs) ==
    IF runs = <<>> THEN Ok([automation_norm |-> <<>>, embed_idxs |-> <<>>])
    ELSE LET h == stringify_automation_run(evs, Head(runs))
             idx == event_index(evs, h.val.embed_event)
             t == StringifyRuns(evs, Tail(runs))
         IN  IF ~h.ok THEN h
             ELSE IF h.val.embed_event # NoEvent /\ ~idx.ok THEN idx
             ELSE IF ~t.ok THEN t
             ELSE Ok([automation_norm |-> <<h.val.text>> \o t.val.automation_norm,
                      embed_idxs |->
                          <<IF h.val.embed_event = NoEvent THEN NoneInt
                            ELSE Some(idx.val)>> \o t.val.embed_idxs])

\* what a call of process_triple leaves: status is "record" (a record was
\* returned), "null" (None was returned) or "error" (it raised err); step
\* names the statement that ended the call; characters and
\* utterance_history are the instance's fields after the call
Outcome(status, err, step, record, chars, hist) ==
    [status |-> status, err |-> err, step |-> step, record |-> record,
     characters |-> chars, utterance_history |-> hist]

\* lines 452-459 with the nearest later update preferred over the span's
TerminalUpdate_AfterFirst(evs, commands, last_pos) ==
    IF combat_state_after_event(evs, last_pos) # NoEvent
    THEN combat_state_after_event(evs, last_pos)
    ELSE LET update_in_commands == find_all_of_type(commands, "combat_state_update")
         IN  IF update_in_commands = <<>> THEN NoEvent
             ELSE update_in_commands[Len(update_in_commands)]

\* lines 452-459: the terminal combat state update, None when there is none
TerminalUpdate(evs, commands, last_pos) ==
    LET update_in_commands == find_all_of_type(commands, "combat_state_update")
    IN  IF update_in_commands = <<>>
        THEN combat_state_after_event(evs, last_pos)
        ELSE update_in_commands[Len(update_in_commands)]

\* the guard with exactly MaxWindow messages discarded too
LengthGuard_AtLeast(window) == IF Len(window) >= MaxWindow THEN <<>> ELSE window

\* lines 388-391: a window of more than 5 messages is discarded
LengthGuard(window) == IF Len(window) > MaxWindow THEN <<>> ELSE window

\* the call raised the error of the failed result r at the statement `step`
Fail(r, step, chars, hist) == Outcome("error", r.err, step, <<>>, chars, hist)

\* the element of a one-element set
Only(S) == CHOOSE r \in S : TRUE

\* lines 377-490.  The value of every statement is named first, in the order
\* of the source where one depends on another (a statement the call does not
\* reach has a value nobody reads); the cascade below them follows the
\* statements in source order and ends at the first that raises or returns.
process_triple(evs, chars0, hist0, triple) ==
    LET commands == triple.commands
        before == LengthGuard(triple.before)
        after == LengthGuard(triple.after)
    IN
    Only({ Only({ Only({ Only({ Only({
        IF commands = <<>>
        THEN Outcome("error", "IndexError", "speaker", <<>>, chars0, hist1)
        ELSE IF ~before_utterances.ok
        THEN Fail(before_utterances, "before_utterances", chars0, hist1)
        ELSE IF ~after_utterances.ok
        THEN Fail(after_utterances, "after_utterances", chars0, hist1)
        ELSE IF ~utterance_history_5.ok
        THEN Fail(utterance_history_5, "utterance_history", chars0, hist1)
        ELSE IF ~first_idx.ok
        THEN Fail(first_idx, "extract_forward", chars0, hist1)
        ELSE IF combat_state_before = NoEvent
        THEN Outcome("error", "TypeError", "state_before", <<>>, chars1, hist1)
        ELSE IF ~before_state_index.ok
        THEN Fail(before_state_index, "state_before", chars1, hist1)
        ELSE IF ~combat_before.ok
        THEN Fail(combat_before, "state_before", chars1, hist1)
        ELSE IF ~actor_list_before.ok
        THEN Fail(actor_list_before, "state_before", chars1, hist1)
        ELSE IF ~current_actor.ok
        THEN Fail(current_actor, "current", chars1, hist1)
        ELSE IF runs = <<>>
        THEN Outcome("error", "UnboundLocalError", "caster", <<>>, chars1, hist1)
        ELSE IF ~caster_norm.ok
        THEN Fail(caster_norm, "caster", chars1, hist1)
        ELSE IF targets.status = "error"
        THEN Fail(targets, "targets", chars1, hist1)
        ELSE IF targets.status = "null"
        THEN Outcome("null", "", "targets", <<>>, chars1, hist1)
        ELSE IF ~narration.ok
        THEN Fail(narration, "stringify", chars1, hist1)
        ELSE IF ~last_idx.ok
        THEN Fail(last_idx, "extract_backward", chars1, hist1)
        ELSE IF last_combat_update = NoEvent
        THEN Outcome("null", "", "state_after", <<>>, chars2, hist1)
        ELSE IF ~after_state_idx.ok
        THEN Fail(after_state_idx, "state_after", chars2, hist1)
        ELSE IF ~combat_after.ok
        THEN Fail(combat_after, "state_after", chars2, hist1)
        ELSE IF ~actor_list_after.ok
        THEN Fail(actor_list_after, "state_after", chars2, hist1)
        ELSE IF ~before_idxs.ok
        THEN Fail(before_idxs, "record", chars2, hist2)
        ELSE IF ~command_idxs.ok
        THEN Fail(command_idxs, "record", chars2, hist2)
        ELSE IF ~after_idxs.ok
        THEN Fail(after_idxs, "record", chars2, hist2)
        ELSE Outcome("record", "", "return",
                     [speaker_id |-> commands[1].author_id,
                      before_utterances |-> before_utterances.val,
                      combat_state_before |-> actor_list_before.val,
                      current_actor |-> current_actor.val,
                      commands_norm |-> commands_norm,
                      automation_results |-> narration.val.automation_norm,
                      caster_after |-> caster_norm.val,
                      targets_after |-> targets.val,
                      combat_state_after |-> actor_list_after.val,
                      after_utterances |-> after_utterances.val,
                      utterance_history |-> utterance_history_5.val,
                      before_idxs |-> before_idxs.val,
                      before_state_idx |-> before_state_index.val,
                      command_idxs |-> command_idxs.val,
                      after_state_idx |-> after_state_idx.val,
                      after_idxs |-> after_idxs.val,
                      embed_idxs |-> narration.val.embed_idxs],
                     chars2, hist2)
        \* lines 462-464
        : actor_list_after \in
            {IF ~combat_after.ok THEN combat_after
             ELSE NormalizeActors(get_combatants(combat_after.val), chars2)} })
        \* lines 416-418
        : actor_list_before \in
            {IF ~combat_before.ok THEN combat_before
             ELSE NormalizeActors(get_combatants(combat_before.val), chars1)},
          \* lines 421-422: <<>> for None, else <<the actor>>
          current_actor \in
            {IF ~combat_before.ok THEN combat_before
             ELSE IF combat_before.val.current.none THEN Ok(<<>>)
             ELSE Only({IF c.ok THEN Ok(<<c.val>>) ELSE c :
                        c \in {normalize_actor(
                                   combat_before.val.combatants[
                                       combat_before.val.current.v + 1],
                                   chars1)}})},
          \* line 460
          after_state_idx \in {event_index(evs, last_combat_update)},
          \* line 461
          combat_after \in
            {IF last_combat_update = NoEvent THEN Raise("TypeError")
             ELSE CombatFromDict(last_combat_update.data[1], chars2)} })
        \* line 414
        : before_state_index \in {event_index(evs, combat_state_before)},
          \* line 415
          combat_before \in
            {IF combat_state_before = NoEvent THEN Raise("TypeError")
             ELSE CombatFromDict(combat_state_before.data[1], chars1)},
          \* lines 425-429
          caster_norm \in {normalize_actor(LoopCaster(runs), chars1)},
          \* lines 432-440
          targets \in {NormalizeTargets(AllTargets(runs), chars1, <<>>)},
          \* line 451
          chars2 \in {extract_characters_backward(chars1, evs, last_idx.val)},
          \* lines 452-459
          last_combat_update \in {TerminalUpdate(evs, commands, last_idx.val)} })
        \* lines 397-399
        : utterance_history_5 \in {NormalizeAll(evs, LastN(hist1, MaxWindow), TRUE)},
          \* line 412
          chars1 \in {extract_characters_forward(chars0, evs, first_idx.val)},
          \* line 413
          combat_state_before \in {combat_state_at_event(evs, first_idx.val)},
          \* lines 443-448
          narration \in {StringifyRuns(evs, runs)},
          \* lines 467-468
          hist2 \in {SortById(hist1 \o triple.after)} })
        \* lines 384-385
        : hist1 \in {SortById(hist0 \o triple.before)},
          \* lines 395-396
          before_utterances \in {NormalizeAll(evs, before, FALSE)},
          after_utterances \in {NormalizeAll(evs, after, FALSE)},
          \* lines 402-409
          commands_norm \in {CommandsNorm(message_groups(commands))},
          \* the positions of commands[0] and commands[-1]
          first_idx \in {IF commands = <<>> THEN Raise("IndexError")
                         ELSE event_index(evs, commands[1])},
          last_idx \in {IF commands = <<>> THEN Raise("IndexError")
                        ELSE event_index(evs, commands[Len(commands)])},
          runs \in {find_all_of_type(commands, "automation_run")},
          \* lines 483-487
          before_idxs \in {IndexAll(evs, before)},
          command_idxs \in {IndexAll(evs, commands)},
          after_idxs \in {IndexAll(evs, after)} })

(***************************************************************************)
(* process_file                                                            *)
(***************************************************************************)
\* `except KeyError` in place of `except Exception`
HandlerCatches_KeyErrorOnly(err) == err = "KeyError"

\* line 507: `except Exception` catches every error process_triple raises
HandlerCatches(err) == TRUE

\* line 505: `if processed` (None is falsy, a record is not)
Truthy(outcome) == outcome.status = "record"

NoOutcome == Outcome("none", "", "", <<>>, <<>>, <<>>)

\* lines 494-499: the instance and the counters before the first triple
SessionStart ==
    /\ characters = <<>>
    /\ utterance_history = <<>>
    /\ out = <<>>
    /\ num_triples_in = 0
    /\ pos = 1
    /\ last = NoOutcome
    /\ ret = <<>>
    /\ arg = <<>>
    /\ res = <<>>
    /\ pc = "loop"
    /\ hashseed \in HashSeeds

\* lines 501-508: one turn of the loop over the triples
ProcessTriple ==
    /\ pc = "loop"
    /\ pos <= Len(triples)
    /\ num_triples_in' = num_triples_in + 1
    /\ last' = process_triple(events, characters, utterance_history, triples[pos])
    /\ characters' = last'.characters
    /\ utterance_history' = last'.utterance_history
    /\ out' = IF Truthy(last') THEN Append(out, last'.record) ELSE out
    /\ IF last'.status = "error" /\ ~HandlerCatches(last'.err)
       THEN pc' = "raised" /\ pos' = pos
       ELSE pc' = "loop" /\ pos' = pos + 1
    /\ UNCHANGED <<events, triples, ret, arg, res, hashseed>>

\* lines 510-515: the pair returned once the triples are exhausted
Return ==
    /\ pc = "loop"
    /\ pos > Len(triples)
    /\ ret' = <<[triples_in |-> num_triples_in,
                 triples_out |-> IF out = <<>> THEN 0 ELSE Len(out),
                 written |-> out]>>
    /\ pc' = "returned"
    /\ UNCHANGED <<events, triples, characters, utterance_history, out,
                   num_triples_in, pos, last, arg, res, hashseed>>

Next == ProcessTriple \/ Return

(***************************************************************************)
(* Spec: process_file over every bounded session.  A session is a          *)
(* sequence of segments; segment number i holds the message ids 10 * i and *)
(* 10 * i + 1.  A triple is made of one command interaction (all its       *)
(* events), the chat messages next before it and the chat next after it.   *)
(***************************************************************************)
MaxSegs == 3

Character(name, key) ==
    [BlankActor EXCEPT !.shape = "character", !.name = name, !.owner = key,
                       !.upstream = key, !.has_upstream = TRUE,
                       !.hp = Some(9), !.max_hp = Some(20),
                       !.race = "Elf", !.class_ = "Wizard 3"]

Ann == Character("Ann", 1)

Bob == Character("Bob", 2)

\* Ann's character as later commands carry it
AnnHurt == [Ann EXCEPT !.hp = Some(5)]

AnnFull == [Ann EXCEPT !.hp = Some(20)]

\* the serialized player combatant of a character
PlayerOf(c) ==
    [BlankActor EXCEPT !.shape = "typed", !.kind = "player", !.name = c.name,
                       !.owner = c.owner, !.upstream = c.upstream]

Orc(hp) ==
    [BlankActor EXCEPT !.shape = "typed", !.kind = "monster", !.name = "Orc",
                       !.hp = Some(hp), !.max_hp = Some(20),
                       !.monster_name = "Orc"]

\* a target that is a bare string
Unresolved(name) == [BlankActor EXCEPT !.shape = "str", !.name = name]

Snapshot(combatants, current) == [combatants |-> combatants, current |-> current]

\* the Orc alone, nobody's turn
SnapOrc == Snapshot(<<Orc(20)>>, NoneInt)

\* Ann and the Orc, Ann's turn
SnapAnn(orc_hp) == Snapshot(<<PlayerOf(Ann), Orc(orc_hp)>>, Some(0))

AttackTree ==
    Root(<<[IterIndex(0) EXCEPT
               !.kids = <<[Attack(TRUE, FALSE) EXCEPT !.kids = <<Damage(7)>>]>>]>>)

Chat(m) ==
    <<[Message(m, "u3", FALSE, <<"h", "i">>) EXCEPT !.author_name = "Cy"]>>

Display(m, title) ==
    <<[Message(m, AVRAE_ID, TRUE, <<>>) EXCEPT
          !.embeds = <<Embed(title, <<"Orc">>)>>]>>

\* a command of a user and the automation runs it caused
Interaction(m, user, caster, runs) ==
    <<Message(m, user, FALSE, <<"!", "a">>),
      Command(m, user, <<"!">>, <<"!", "a">>, caster)>> \o runs

SegKinds ==
    {"chat", "state", "stateAnn", "join", "bobJoin", "attack", "attackBare",
     "strTarget", "bobThenStr", "noCaster"}

\* the kinds of segment the triple file holds a triple for
TripleKinds ==
    {"attack", "attackBare", "strTarget", "bobThenStr", "noCaster",
     "nullThenAnn", "annThenNull", "noRun"}

\* n chat messages with the ids m, m + 1, ...
Chats(m, n) == Concat([i \in 1..n |-> Chat(m + i - 1)])

\* the kinds of segment that are chat only
ChatKinds == {"chat", "chat5", "chat6"}

SegEvents(kind, m) ==
    CASE kind = "chat" -> Chat(m)
      [] kind = "chat5" -> Chats(m, MaxWindow)
      [] kind = "chat6" -> Chats(m, MaxWindow + 1)
      [] kind = "state" -> <<CombatStateUpdate(SnapOrc)>>
      [] kind = "stateAnn" -> <<CombatStateUpdate(SnapAnn(20))>>
      [] kind = "join" ->
            Interaction(m, "u1", Ann, <<>>) \o <<CombatStateUpdate(SnapAnn(20))>>
      [] kind = "bobJoin" -> Interaction(m, "u2", Bob, <<>>)
      [] kind = "attack" ->
            Interaction(m, "u1", Ann, <<AutomationRun(m, Ann, <<Orc(20)>>, AttackTree)>>)
                \o Display(m + 1, <<"Ann", " attacks!">>)
                \o <<CombatStateUpdate(SnapAnn(20)), CombatStateUpdate(SnapAnn(13))>>
      [] kind = "attackBare" ->
            Interaction(m, "u1", Ann, <<AutomationRun(m, Ann, <<Orc(20)>>, AttackTree)>>)
      [] kind = "strTarget" ->
            Interaction(m, "u1", Ann,
                        <<AutomationRun(m, Ann, <<Unresolved("Orc")>>, AttackTree)>>)
      [] kind = "bobThenStr" ->
            Interaction(m, "u1", Ann,
                        <<AutomationRun(m, Ann, <<PlayerOf(Bob), Unresolved("Orc")>>,
                                        AttackTree)>>)
      [] kind = "noCaster" ->
            Interaction(m, "u1", Ann,
                        <<AutomationRun(m, NoActor, <<Orc(20)>>, AttackTree)>>)
      [] kind = "nullThenAnn" ->
            Interaction(m, "u1", Ann,
                        <<AutomationRun(m, NoActor, <<Orc(20)>>, AttackTree),
                          AutomationRun(m, Ann, <<Orc(20)>>, AttackTree)>>)
      [] kind = "annThenNull" ->
            Interaction(m, "u1", Ann,
                        <<AutomationRun(m, Ann, <<Orc(20)>>, AttackTree),
                          AutomationRun(m, NoActor, <<Orc(20)>>, AttackTree)>>)
      [] kind = "noRun" -> Interaction(m, "u1", Ann, <<>>)
      [] kind = "annHurt" -> Interaction(m, "u1", AnnHurt, <<>>)
      [] kind = "hurtThenFull" ->
            Interaction(m, "u1", AnnHurt, <<>>)
                \o Interaction(m + 1, "u1", AnnFull, <<>>)
                \o <<CombatStateUpdate(SnapAnn(20))>>

LogOf(kinds) == Concat([i \in 1..Len(kinds) |-> SegEvents(kinds[i], 10 * i)])

\* the chat messages of the run of chat segments from segment i on, in the
\* direction step, in log order
RECURSIVE ChatRun(_, _, _)
ChatRun(kinds, i, step) ==
    IF i \notin 1..Len(kinds) \/ kinds[i] \notin ChatKinds THEN <<>>
    ELSE IF step < 0
         THEN ChatRun(kinds, i - 1, step) \o SegEvents(kinds[i], 10 * i)
    ELSE SegEvents(kinds[i], 10 * i) \o ChatRun(kinds, i + 1, step)

TripleAt(kinds, i) ==
    [before |-> ChatRun(kinds, i - 1, 0 - 1),
     commands |-> SegEvents(kinds[i], 10 * i),
     after |-> ChatRun(kinds, i + 1, 1)]

IsTripleAt(kinds, i) == kinds[i] \in TripleKinds

TriplesOf(kinds) ==
    LET Test(i) == IsTripleAt(kinds, i)
        at == SelectSeq([i \in 1..Len(kinds) |-> i], Test)
    IN  [k \in 1..Len(at) |-> TripleAt(kinds, at[k])]

Init ==
    /\ \E kinds \in SeqsUpTo(SegKinds, MaxSegs) :
           /\ events = LogOf(kinds)
           /\ triples = TriplesOf(kinds)
    /\ SessionStart

Spec == Init /\ [][Next]_vars

(***************************************************************************)
(* SpecWindows: process_file over the sessions whose chat comes in runs of *)
(* one, five and six messages.  The log opens with a combat state update, *)
(* so that an attack at any place has a state to start from.               *)
(***************************************************************************)
WindowKinds == {"chat", "chat5", "chat6", "attack", "strTarget", "noCaster"}

InitWindows ==
    /\ \E kinds \in SeqsUpTo(WindowKinds, MaxSegs) :
           /\ events = <<CombatStateUpdate(SnapOrc)>> \o LogOf(kinds)
           /\ triples = TriplesOf(kinds)
    /\ SessionStart

SpecWindows == InitWindows /\ [][Next]_vars

(***************************************************************************)
(* SpecCasters: process_file over the sessions whose commands have runs    *)
(* with and without a caster, or no run.  Every tree is of known nodes and *)
(* every target is the Orc of the opening combat state.                    *)
(***************************************************************************)
CasterKinds ==
    {"chat", "bobJoin", "attack", "noCaster", "nullThenAnn", "annThenNull",
     "noRun"}

InitCasters ==
    /\ \E kinds \in SeqsUpTo(CasterKinds, MaxSegs) :
           /\ events = <<CombatStateUpdate(SnapOrc)>> \o LogOf(kinds)
           /\ triples = TriplesOf(kinds)
    /\ SessionStart

SpecCasters == InitCasters /\ [][Next]_vars

(***************************************************************************)
(* SpecCache: process_file over the sessions in which the commands of one  *)
(* player carry different versions of her character.                       *)
(***************************************************************************)
CacheKinds ==
    {"annHurt", "hurtThenFull", "bobJoin", "stateAnn", "attack", "attackBare",
     "noCaster"}

InitCache ==
    /\ \E kinds \in SeqsUpTo(CacheKinds, MaxSegs) :
           /\ events = <<CombatStateUpdate(SnapOrc)>> \o LogOf(kinds)
           /\ triples = TriplesOf(kinds)
    /\ SessionStart

SpecCache == InitCache /\ [][Next]_vars

\* the triple has an automation run with a bare-string target
HasStringTarget(triple) ==
    \E i \in 1..Len(triple.commands) :
        /\ triple.commands[i].event_type = "automation_run"
        /\ \E j \in 1..Len(triple.commands[i].targets) :
               triple.commands[i].targets[j].shape = "str"

\* a turn of the loop of process_file has been taken
TripleProcessed == num_triples_in' = num_triples_in + 1

\* the statements of process_triple up to the loop over the targets
UpToTargets ==
    {"speaker", "before_utterances", "after_utterances", "utterance_history",
     "extract_forward", "state_before", "current", "caster", "targets"}

\* C4 as stated: a triple one of whose automation runs has a bare-string
\* target makes process_triple return null, and process_file adds no record.
C4_StringTargetNull ==
    [][(TripleProcessed /\ HasStringTarget(triples[pos]))
          => (last'.status = "null" /\ out' = out)]_vars

\* C4, amended: a triple one of whose automation runs has a bare-string target
\* yields no record and no partial record: process_triple returns null from
\* the loop over the targets, unless a statement before the loop, or the
\* normalization of a target before the string, raises first; process_file
\* appends nothing for it, and the count it returns covers no such triple.
C4_StringTargetNoRecord ==
    /\ [][(TripleProcessed /\ HasStringTarget(triples[pos]))
             => /\ out' = out
                /\ last'.record = <<>>
                /\ last'.status \in {"null", "error"}
                /\ last'.status = "null" => last'.step = "targets"
                /\ last'.status = "error" => last'.step \in UpToTargets]_vars
    /\ [](pc = "returned" =>
             /\ ret[1].written = out
             /\ ret[1].triples_out
                   <= Cardinality({i \in 1..Len(triples) :
                                      ~HasStringTarget(triples[i])}))

\* a triple whose only target is a bare string has just returned null
C4_Witness ==
    /\ pos > 1
    /\ HasStringTarget(triples[pos - 1])
    /\ last.status = "null"
    /\ last.step = "targets"

\* C5: an error raised by process_triple ends only that triple: it never
\* leaves process_file, the loop goes on with the next triple in input order
\* (a record carries the log positions of its own triple's commands), the
\* count of triples in grows by one for every triple and the output by one
\* exactly for a returned record; the pair returned is (number of triples,
\* number of records), triples out <= triples in.
C5_ErrorIsolation ==
    /\ [](/\ pc \in {"loop", "returned"}
          /\ num_triples_in = pos - 1
          /\ Len(out) <= num_triples_in
          /\ pc = "returned" =>
                /\ ret[1].triples_in = Len(triples)
                /\ ret[1].triples_out = Len(out)
                /\ ret[1].triples_out <= ret[1].triples_in)
    /\ [][TripleProcessed
             => /\ pos' = pos + 1
                /\ pc' = "loop"
                /\ last'.status \in {"record", "null", "error"}
                /\ out' = IF last'.status = "record"
                          THEN Append(out, last'.record) ELSE out
                /\ last'.status = "record" =>
                      LET p == last'.record.command_idxs[1] + 1
                      IN  /\ events[p].event_type = "message"
                          /\ events[p].message_id
                                = triples[pos].commands[1].message_id]_vars

\* the first of two triples raised, the second gave the only record, and
\* process_file returned (2, 1)
C5_Witness ==
    /\ pc = "returned"
    /\ ret[1].triples_in = 2
    /\ ret[1].triples_out = 1
    /\ last.status = "record"
    /\ process_triple(events, <<>>, <<>>, triples[1]).status = "error"

\* the log positions (1-based) of a triple's command span
SpanFirst(triple) ==
    Min({p \in 1..Len(events) :
            /\ events[p].event_type = "message"
            /\ events[p].message_id = triple.commands[1].message_id})

SpanLast(triple) == SpanFirst(triple) + Len(triple.commands) - 1

UpdatesIn(triple) ==
    {p \in SpanFirst(triple)..SpanLast(triple) :
        events[p].event_type = "combat_state_update"}

UpdatesAfter(triple) ==
    {p \in (SpanLast(triple) + 1)..Len(events) :
        events[p].event_type = "combat_state_update"}

\* the terminal update the claim names, None when there is none
ClaimedTerminal(triple) ==
    IF UpdatesIn(triple) # {} THEN events[Max(UpdatesIn(triple))]
    ELSE IF UpdatesAfter(triple) # {} THEN events[Min(UpdatesAfter(triple))]
    ELSE NoEvent

\* the record's combat_state_after lists the combatants of the snapshot
ListsSnapshot(actors, snapshot) ==
    /\ Len(actors) = Len(snapshot.combatants)
    /\ \A i \in 1..Len(actors) :
          /\ actors[i].name = snapshot.combatants[i].name
          /\ snapshot.combatants[i].kind = "monster" =>
                actors[i].hp = HpString(snapshot.combatants[i].hp,
                                        snapshot.combatants[i].max_hp,
                                        snapshot.combatants[i].temp_hp).val

KnownBefore(triple) ==
    DOMAIN characters \cup
        {CharKey(events[p].caster) : p \in
            {q \in 1..(SpanFirst(triple) - 1) :
                /\ events[q].event_type \in {"command", "automation_run"}
                /\ events[q].caster.shape # "none"
                /\ events[q].caster.has_upstream}}

IsTypedPlayer(a) == a.shape = "typed" /\ a.kind = "player"

\* the positions of the updates at or before the first event of the span
UpdatesBefore(triple) ==
    {p \in 1..SpanFirst(triple) : events[p].event_type = "combat_state_update"}

\* the snapshot the triple starts from holds a player the cache has no
\* character for
MissingInStateBefore(triple) ==
    /\ UpdatesBefore(triple) # {}
    /\ \E c \in Range(events[Max(UpdatesBefore(triple))].data[1].combatants) :
           IsTypedPlayer(c) /\ CharKey(c) \notin KnownBefore(triple)

\* the snapshot decodes, a run has a caster, and the first target of the runs
\* is a player the cache has no character for
MissingInTargets(triple) ==
    LET runs == find_all_of_type(triple.commands, "automation_run")
    IN  /\ UpdatesBefore(triple) # {}
        /\ ~MissingInStateBefore(triple)
        /\ \E i \in 1..Len(runs) : runs[i].caster.shape # "none"
        /\ AllTargets(runs) # <<>>
        /\ IsTypedPlayer(AllTargets(runs)[1])
        /\ CharKey(AllTargets(runs)[1]) \notin KnownBefore(triple)

\* C10: decoding a serialized player combatant whose (character_owner,
\* character_id) is no key of the cache raises the missing-character error: the
\* triple yields no record, the cache holds what the scan before the decode
\* left (the key is still absent), and the loop goes on with the next triple.
C10_MissingCharacter ==
    [][(/\ TripleProcessed
        /\ \/ MissingInStateBefore(triples[pos])
           \/ MissingInTargets(triples[pos]))
          => /\ last'.status = "error"
             /\ last'.err = "NoCharacter"
             /\ last'.step = IF MissingInStateBefore(triples[pos])
                             THEN "state_before" ELSE "targets"
             /\ last'.record = <<>>
             /\ out' = out
             /\ DOMAIN characters' = KnownBefore(triples[pos])
             /\ pc' = "loop"
             /\ pos' = pos + 1]_vars

\* the decode of the snapshot before a triple has just failed, and another
\* triple is left to process
C10_Witness ==
    /\ last.status = "error"
    /\ last.err = "NoCharacter"
    /\ last.step = "state_before"
    /\ pc = "loop"
    /\ pos <= Len(triples)

\* the keys the events after the triple's span define
KnownAfter(triple) ==
    {CharKey(events[p].caster) : p \in
        {q \in (SpanLast(triple) + 1)..Len(events) :
            /\ events[q].event_type \in {"command", "automation_run"}
            /\ events[q].caster.shape # "none"
            /\ events[q].caster.has_upstream}}

\* the statements of process_triple between the two scans
BeforeBackwardScan ==
    {"state_before", "current", "caster", "targets", "stringify"}

\* the statements of process_triple after the backward scan
AfterBackwardScan == {"state_after", "record", "return"}

\* every player of the snapshot the triple starts from is defined by a
\* command or run somewhere outside the span
StateBeforeDefinedSomewhere(triple) ==
    /\ UpdatesBefore(triple) # {}
    /\ \A c \in Range(events[Max(UpdatesBefore(triple))].data[1].combatants) :
           IsTypedPlayer(c) =>
               CharKey(c) \in KnownBefore(triple) \cup KnownAfter(triple)

C16_WitnessAfter ==
    /\ pos = 2
    /\ last.status = "record"
    /\ \E c \in Range(ClaimedTerminal(triples[1]).data[1].combatants) :
          /\ IsTypedPlayer(c)
          /\ CharKey(c) \in KnownAfter(triples[1])
          /\ \A q \in 1..(SpanFirst(triples[1]) - 1) :
                 events[q].event_type \notin {"command", "automation_run"}

\* the number of times x occurs in the list
Count(list, x) == Cardinality({i \in 1..Len(list) : list[i] = x})

\* list is `base` with every element of `added` put in, in some order
GrownBy(list, base, added) ==
    /\ Len(list) = Len(base) + Len(added)
    /\ \A x \in Range(list) \cup Range(base) \cup Range(added) :
          Count(list, x) = Count(base, x) + Count(added, x)

\* the 0-based log positions of the messages of the window, in order
PositionsOf(window, idxs) ==
    /\ Len(idxs) = Len(window)
    /\ \A i \in 1..Len(window) :
          /\ idxs[i] + 1 \in 1..Len(events)
          /\ events[idxs[i] + 1] = window[i]

\* the record's utterances and positions for a window under the guard
Guarded(window, utterances, idxs) ==
    IF Len(window) > 5
    THEN utterances = <<>> /\ idxs = <<>>
    ELSE Len(utterances) = Len(window) /\ PositionsOf(window, idxs)

\* C17: in a record a window before (after) the commands of more than 5
\* messages is empty, utterances and positions alike, and one of exactly 5 is
\* kept in full; the history is not guarded: every call appends all messages
\* of the window before, and a call that returns a record all messages of
\* the window after, however long the windows are.
C17_LengthGuard ==
    [][TripleProcessed =>
          LET t == triples[pos]
          IN  /\ last'.status = "record" =>
                    /\ Guarded(t.before, last'.record.before_utterances,
                               last'.record.before_idxs)
                    /\ Guarded(t.after, last'.record.after_utterances,
                               last'.record.after_idxs)
                    /\ GrownBy(utterance_history', utterance_history,
                               t.before \o t.after)
              /\ last'.status # "record" =>
                    GrownBy(utterance_history', utterance_history, t.before)]_vars

\* a record was made of a triple with six messages before the commands:
\* none is in the record, all six are in the history
C17_Witness ==
    /\ pos > 1
    /\ last.status = "record"
    /\ Len(triples[pos - 1].before) = 6
    /\ last.record.before_utterances = <<>>
    /\ last.record.before_idxs = <<>>
    /\ \A i \in 1..6 : Count(utterance_history, triples[pos - 1].before[i]) >= 1

\* a record was made of a triple with exactly five messages after the
\* commands, all of them in the record
C17_WitnessFive ==
    /\ pos > 1
    /\ last.status = "record"
    /\ Len(triples[pos - 1].after) = 5
    /\ Len(last.record.after_utterances) = 5
    /\ Len(last.record.after_idxs) = 5

\* the list is in non-decreasing order of the numeric message id
SortedById(list) ==
    \A i \in 1..(Len(list) - 1) : list[i].message_id <= list[i + 1].message_id

\* the message at place k (from 1) when the pool is put in ascending order
\* of id; messages of one id are one and the same message
KthById(pool, k) ==
    CHOOSE x \in Range(pool) :
        /\ Cardinality({i \in 1..Len(pool) : pool[i].message_id < x.message_id}) < k
        /\ Cardinality({i \in 1..Len(pool) : pool[i].message_id <= x.message_id}) >= k

\* the text a chat message of the sessions is normalized to, with its author
Attributed(msg) == <<msg.author_name, ": ">> \o msg.content

CastersOf(triple) ==
    LET runs == find_all_of_type(triple.commands, "automation_run")
        HasCaster(e) == e.caster.shape # "none"
        with == SelectSeq(runs, HasCaster)
    IN  [i \in 1..Len(with) |-> with[i].caster]

\* C19: caster_after is the reconstruction of the first caster that is not
\* null among the automation runs of the span, in log order; runs without a
\* caster are skipped, and a triple fails on account of casters only if no
\* run of it has a caster (none at all included).  In the sessions of
\* SpecCasters nothing but a caster can fail the reconstruction of the caster
\* or the narration of a run.
C19_FirstCaster ==
    [][TripleProcessed =>
          LET casters == CastersOf(triples[pos])
          IN  /\ last'.status = "record" =>
                    /\ casters # <<>>
                    /\ last'.record.caster_after.name = casters[1].name
              /\ casters = <<>> =>
                    last'.status = "error" /\ last'.step = "caster"
              /\ casters # <<>> =>
                    ~(/\ last'.status = "error"
                      /\ last'.step \in {"caster", "stringify"})]_vars

\* C22: a triple that raises or is discarded (process_triple returns null)
\* does not affect the triples after it: the utterance history and the
\* character cache are after it as they were before it started, and the
\* next triple gives the result it would give had the failed triple not been
\* processed.
C22_FailureLeavesNoTrace ==
    [][(TripleProcessed /\ last'.status # "record") =>
          /\ utterance_history' = utterance_history
          /\ characters' = characters
          /\ pos < Len(triples) =>
                LET after_failure ==
                        process_triple(events, characters', utterance_history',
                                       triples[pos + 1])
                    without == process_triple(events, characters,
                                              utterance_history, triples[pos + 1])
                IN  /\ after_failure.status = without.status
                    /\ after_failure.record = without.record]_vars

\* the positions before the triple's span of the commands and runs that
\* define the character of key k
DefinedBeforeAt(triple, k) ==
    {q \in 1..(SpanFirst(triple) - 1) :
        /\ events[q].event_type \in {"command", "automation_run"}
        /\ events[q].caster.shape # "none"
        /\ events[q].caster.has_upstream
        /\ CharKey(events[q].caster) = k}

\* the keys some event before the span defines
KeysBefore(triple) ==
    {k \in {CharKey(events[q].caster) : q \in 1..(SpanFirst(triple) - 1)} :
        DefinedBeforeAt(triple, k) # {}}

\* the definition of key k by the latest event before the span
LatestBefore(triple, k) == events[Max(DefinedBeforeAt(triple, k))].caster

\* the players of the snapshot the triple starts from show, in the record,
\* the hp of the latest definition before the span
StateBeforeShowsLatest(triple, record) ==
    LET snapshot == events[Max(UpdatesBefore(triple))].data[1]
    IN  \A i \in 1..Len(snapshot.combatants) :
           IsTypedPlayer(snapshot.combatants[i]) =>
               LET character == LatestBefore(triple, CharKey(snapshot.combatants[i]))
               IN  record.combat_state_before[i].hp =
                       HpString(character.hp, character.max_hp,
                                character.temp_hp).val

\* C23: when process_triple decodes the snapshot before the span, the cache
\* holds, for every key that a command or run before the span defines, the
\* definition of the latest such event, whatever the earlier triples (their
\* backward scans too) left under the key; and no key ever leaves the cache.
\* A call that ends between the scans shows the cache itself, a record shows
\* it in the players of combat_state_before.
C23_LatestDefinition ==
    [][TripleProcessed =>
          /\ DOMAIN characters \subseteq DOMAIN characters'
          /\ last'.step \in BeforeBackwardScan =>
                \A k \in KeysBefore(triples[pos]) :
                    /\ k \in DOMAIN characters'
                    /\ characters'[k] = LatestBefore(triples[pos], k)
          /\ last'.status = "record" =>
                StateBeforeShowsLatest(triples[pos], last'.record)]_vars

\* a record was made of a second triple that starts from a snapshot with
\* Ann; two commands between the triples define Ann, the backward scan of
\* the first triple ended on the earlier one (hp 5), and the record shows the
\* later one (hp 20)
C23_Witness ==
    /\ pos = 3
    /\ last.status = "record"
    /\ out[1].combat_state_after[1].hp = HpString(Some(5), Some(20), 0).val
    /\ LatestBefore(triples[2], CharKey(Ann)) = AnnFull
    /\ last.record.combat_state_before[1].name = "Ann"
    /\ last.record.combat_state_before[1].hp = HpString(Some(20), Some(20), 0).val

(***************************************************************************)
(* SpecIndex: event_index on every bounded log and every argument.         *)
(***************************************************************************)
MaxIndexLog == 3

MaxIndexId == 2

IndexContents == {<<"a">>, <<"b">>}

IndexPalette ==
    {Message(m, "u1", FALSE, c) : m \in 1..MaxIndexId, c \in IndexContents}
        \cup {Command(1, "u1", <<"!">>, c, NoActor) : c \in IndexContents}

IndexLogs == {l \in SeqsUpTo(IndexPalette, MaxIndexLog) : MessageIdsIncrease(l)}

InitIndex ==
    /\ SessionIdle
    /\ arg \in [events : IndexLogs, event : IndexPalette]
    /\ res = Raise("")
    /\ pc = "call"

EventIndexCall ==
    /\ pc = "call"
    /\ res' = event_index(arg.events, arg.event)
    /\ pc' = "done"
    /\ UNCHANGED <<sessionVars, arg>>

NextIndex == EventIndexCall

SpecIndex == InitIndex /\ [][NextIndex]_vars

\* C1: event_index of a message-kind event returns the position of the log
\* entry that is message-kind and has the argument's message_id, whatever the
\* argument's other fields hold; of any other event, the position of the entry
\* equal to the argument; and it raises when there is no such entry.
C1_EventIndex ==
    pc = "done" =>
        LET evs == arg.events
            e == arg.event
            present == IF e.event_type = "message"
                       THEN \E i \in 1..Len(evs) :
                               /\ evs[i].event_type = "message"
                               /\ evs[i].message_id = e.message_id
                       ELSE \E i \in 1..Len(evs) : evs[i] = e
        IN  /\ res.ok <=> present
            /\ (res.ok /\ e.event_type = "message") =>
                   /\ res.val + 1 \in 1..Len(evs)
                   /\ evs[res.val + 1].event_type = "message"
                   /\ evs[res.val + 1].message_id = e.message_id
            /\ (res.ok /\ e.event_type # "message") =>
                   /\ res.val + 1 \in 1..Len(evs)
                   /\ evs[res.val + 1] = e

\* a mutated copy of a logged message is found at the position of the original
C1_Witness ==
    /\ pc = "done"
    /\ arg.event.event_type = "message"
    /\ res.ok
    /\ arg.events[res.val + 1] # arg.event
    /\ res.val > 0

(***************************************************************************)
(* SpecActor: normalize_actor on every bounded actor.                      *)
(***************************************************************************)
MaxHp == 20

HpValues == {NoneInt} \cup {Some(n) : n \in (0 - 1)..MaxHp}

ActorInputs ==
    {[BlankActor EXCEPT !.shape = sh, !.kind = IF sh = "combatant" THEN "common" ELSE "",
                        !.name = "Orc", !.hp = h, !.max_hp = m, !.temp_hp = t]
        : sh \in {"combatant", "monster"}, h \in HpValues, m \in HpValues,
          t \in {0, 2}}

InitActor ==
    /\ SessionIdle
    /\ arg \in [actor : ActorInputs]
    /\ res = Raise("")
    /\ pc = "call"

NormalizeActorCall ==
    /\ pc = "call"
    /\ res' = normalize_actor(arg.actor, <<>>)
    /\ pc' = "done"
    /\ UNCHANGED <<sessionVars, arg>>

NextActor == NormalizeActorCall

SpecActor == InitActor /\ [][NextActor]_vars

Bands == {"; Healthy", "; Injured", "; Bloodied", "; Critical", "; Dead"}

\* the bands the claim's table gives for hp/max_hp, max_hp > 0
ClaimedBands(hp, max_hp) ==
    {b \in Bands :
        \/ b = "; Healthy" /\ hp >= max_hp
        \/ b = "; Injured" /\ 2 * hp > max_hp /\ hp < max_hp
        \/ b = "; Bloodied" /\ 100 * hp > 15 * max_hp /\ 2 * hp <= max_hp
        \/ b = "; Critical" /\ hp > 0 /\ 100 * hp <= 15 * max_hp
        \/ b = "; Dead" /\ hp <= 0}

BandsIn(text) == {b \in Bands : Contains(text, <<b>>)}

\* C3: with hp and max_hp known and max_hp > 0 the hp string carries exactly
\* one band, the one the ratio table gives (0.5 is Bloodied, 0.15 Critical);
\* with max_hp <= 0 nothing is divided, nothing raises and no band appears.
C3_HealthBand ==
    (pc = "done" /\ ~arg.actor.hp.none /\ ~arg.actor.max_hp.none) =>
        LET hp == arg.actor.hp.v
            max_hp == arg.actor.max_hp.v
        IN  /\ res.ok
            /\ Contains(res.val.hp, IntToStr(hp) \o <<"/">> \o IntToStr(max_hp))
            /\ max_hp > 0 =>
                  /\ BandsIn(res.val.hp) = ClaimedBands(hp, max_hp)
                  /\ Cardinality(BandsIn(res.val.hp)) = 1
            /\ max_hp <= 0 => BandsIn(res.val.hp) = {}

\* ratio exactly 0.5 rendered as Bloodied
C3_Witness ==
    /\ pc = "done"
    /\ arg.actor.hp = Some(10)
    /\ arg.actor.max_hp = Some(20)
    /\ res.ok
    /\ BandsIn(res.val.hp) = {"; Bloodied"}

(***************************************************************************)
(* SpecMention: the mention-stripping step on every bounded content.       *)
(***************************************************************************)
MaxChunks == 4

Digits17 == [i \in 1..17 |-> DigitChar(i % 10)]

Digits20 == [i \in 1..20 |-> DigitChar(i % 10)]

\* the pieces contents are built from
MentionChunks ==
    {<<"<", "@">>, <<"<", "#">>, <<"<", "@", "!">>, <<">">>, <<"1">>,
     Digits17, Digits20, <<"<", "@">> \o Digits17 \o <<">">>}

MentionContents == {Concat(cs) : cs \in SeqsUpTo(MentionChunks, MaxChunks)}

InitMention ==
    /\ SessionIdle
    /\ arg \in [content : MentionContents]
    /\ res = <<>>
    /\ pc = "call"

StripMentionsCall ==
    /\ pc = "call"
    /\ res' = strip_mentions(arg.content)
    /\ pc' = "done"
    /\ UNCHANGED <<sessionVars, arg>>

NextMention == StripMentionsCall

SpecMention == InitMention /\ [][NextMention]_vars

Sigils == {<<"@">>, <<"@", "!">>, <<"@", "&">>, <<"#">>}

\* s[i .. i+n-1] is '<' + sigil + 17 to 20 digits + '>'
IsMentionToken(s, i, n) ==
    \E sig \in Sigils, k \in MinIdDigits..MaxIdDigits :
        /\ n = Len(sig) + k + 2
        /\ i + n - 1 <= Len(s)
        /\ s[i] = "<"
        /\ StartsAt(s, sig, i + 1)
        /\ \A d \in 1..k : IsDigit(s[i + Len(sig) + d])
        /\ s[i + n - 1] = ">"

\* the lengths a mention token can have
TokenLens == (MinIdDigits + 3)..(MaxIdDigits + 4)

\* the mention tokens of s, as <<start, length>>
MentionTokens(s) ==
    {t \in {i \in 1..Len(s) : s[i] = "<"} \X TokenLens :
        IsMentionToken(s, t[1], t[2])}

HasMentionToken(s) == MentionTokens(s) # {}

\* the positions of s inside some mention token of s
InMention(s) == UNION {t[1]..(t[1] + t[2] - 1) : t \in MentionTokens(s)}

\* s without the characters at the positions in D
RECURSIVE Without(_, _, _)
Without(s, D, i) ==
    IF i > Len(s) THEN <<>>
    ELSE (IF i \in D THEN <<>> ELSE <<s[i]>>) \o Without(s, D, i + 1)

\* C6 as stated: the stripped text contains no mention token
C6_NoMentionLeft == pc = "done" => ~HasMentionToken(res)

\* C6 as amended: the stripped text is the content without the characters of
\* its mention tokens, every other character kept in place and in order; a
\* token left in the result is not a token of the content.
C6_StripMentions ==
    pc = "done" => res = Without(arg.content, InMention(arg.content), 1)

\* two mentions and a stray character: both removed, the rest kept
C6_Witness ==
    /\ pc = "done"
    /\ Cardinality(MentionTokens(arg.content)) = 2
    /\ res # <<>>
    /\ ~HasMentionToken(res)

(***************************************************************************)
(* SpecCommand: normalize_command_group on every bounded group.            *)
(***************************************************************************)
MaxCmdLen == 4

CmdAlphabet == {"?", "a", " "}

CmdPrefixes == {<<"?">>, <<"?", "?">>, <<"a", "?">>}

CmdContents == SeqsUpTo(CmdAlphabet, MaxCmdLen)

CmdSnippets == {<<>>, <<SnippetResolution(1, <<"a">>, <<"x", " ", "y">>)>>}

CmdGroups ==
    {<<Message(1, "u1", FALSE, c)>> \o <<Command(1, "u1", p, c, NoActor)>> \o sn
        : c \in CmdContents, p \in CmdPrefixes, sn \in CmdSnippets}
    \cup {<<Message(1, "u1", FALSE, c)>> \o sn
             : c \in CmdContents, sn \in CmdSnippets}

InitCommand ==
    /\ SessionIdle
    /\ arg \in [group : CmdGroups]
    /\ res = NoneText
    /\ pc = "call"

NormalizeCommandGroupCall ==
    /\ pc = "call"
    /\ res' = normalize_command_group(arg.group)
    /\ pc' = "done"
    /\ UNCHANGED <<sessionVars, arg>>

NextCommand == NormalizeCommandGroupCall

SpecCommand == InitCommand /\ [][NextCommand]_vars

\* the occurrences (1-based starts) of p in s
Occurrences(s, p) == {i \in 1..(Len(s) + 1) : StartsAt(s, p, i)}

\* C7: only the first occurrence of the recorded prefix is replaced, by "!";
\* the text after it, with every later occurrence of the prefix, is
\* unchanged; a group with no command event yields None.
C7_PrefixFirstOnly ==
    pc = "done" =>
        LET g == arg.group
            cmds == {i \in 1..Len(g) : g[i].event_type = "command"}
            plain == \A i \in 1..Len(g) : g[i].event_type # "snippet_resolution"
        IN  /\ cmds = {} => res.isNone
            /\ (cmds # {} /\ plain) =>
                  LET c == g[Min(cmds)].content
                      p == g[Min(cmds)].prefix
                      occ == Occurrences(c, p)
                      r == res.text
                  IN  /\ ~res.isNone
                      /\ occ = {} => r = c
                      /\ occ # {} =>
                            LET f == Min(occ)
                                shift == 1 - Len(p)
                            IN  /\ Len(r) = Len(c) + shift
                                /\ \A i \in 1..(f - 1) : r[i] = c[i]
                                /\ r[f] = "!"
                                /\ \A i \in (f + Len(p))..Len(c) :
                                       r[i + shift] = c[i]
                                /\ \A o \in occ :
                                       o >= f + Len(p) => StartsAt(r, p, o + shift)

\* the prefix occurs twice and the second occurrence survives
C7_Witness ==
    /\ pc = "done"
    /\ ~res.isNone
    /\ arg.group[2].event_type = "command"
    /\ Len(arg.group) = 2
    /\ Cardinality(Occurrences(arg.group[2].content, arg.group[2].prefix)) = 2
    /\ Cardinality(Occurrences(res.text, arg.group[2].prefix)) = 1

(***************************************************************************)
(* Resolution trees of bounded size.                                       *)
(***************************************************************************)
MaxNodes == 4

\* A forest of n nodes is drawn as its nodes in preorder, l[i] the node and
\* d[i] its depth: the first node has depth 1 and a node is at most one
\* level below the node before it.
ValidShape(d) ==
    /\ \A i \in 1..Len(d) : i = 1 => d[i] = 1
    /\ \A i \in 1..(Len(d) - 1) : d[i + 1] <= d[i] + 1

\* the nodes drawn from Leaves have no kids
LeavesOk(d, l, Leaves) ==
    \A i \in 1..(Len(d) - 1) : (l[i] \in Leaves) => d[i + 1] <= d[i]

\* the last position of the subtree of the node at position i
SubtreeEnd(d, i) ==
    LET after == {j \in (i + 1)..Len(d) : d[j] <= d[i]}
    IN  IF after = {} THEN Len(d) ELSE Min(after) - 1

\* the trees whose roots lie in positions from..to
RECURSIVE Unflatten(_, _, _, _)
Unflatten(d, l, from, to) ==
    IF from > to THEN <<>>
    ELSE LET e == SubtreeEnd(d, from)
         IN  <<[l[from] EXCEPT !.kids = Unflatten(d, l, from + 1, e)]>>
                \o Unflatten(d, l, e + 1, to)

(***************************************************************************)
(* SpecTarget: the current target over trees with target_iteration nodes.  *)
(***************************************************************************)
TargetLeaves == {Damage(7)}

TargetInner == {Attack(TRUE, FALSE), IterSelf, IterIndex(0), IterIndex(1)}

InitTarget ==
    /\ SessionIdle
    /\ \E n \in 0..MaxNodes : \E d \in [1..n -> 1..n] :
          /\ ValidShape(d)
          /\ \E l \in [1..n -> TargetLeaves \cup TargetInner] :
                /\ LeavesOk(d, l, TargetLeaves)
                /\ arg = [caster |-> "Ann", targets |-> <<"Orc", "Elf">>,
                          tree |-> Root(Unflatten(d, l, 1, n))]
    /\ res = Failed("", NONE)
    /\ pc = "call"

StringifyCall ==
    /\ pc = "call"
    /\ res' = stringify_tree(arg.caster, arg.targets, arg.tree)
    /\ pc' = "done"
    /\ UNCHANGED <<sessionVars, arg>>

NextTarget == StringifyCall

SpecTarget == InitTarget /\ [][NextTarget]_vars

\* the target a target_iteration node of the claim sets for its branch
BranchTarget(caster, targets, node, enclosing) ==
    IF node.type # "target_iteration" THEN enclosing
    ELSE IF node.target_type = "self" THEN caster
    ELSE targets[node.target_index.v + 1]

\* the tree rendered with the target handed down the recursion: a node sees
\* the target of its nearest enclosing target_iteration (ambient when none)
RECURSIVE Scoped(_, _, _, _)
RECURSIVE ScopedMany(_, _, _, _, _)
ScopedMany(caster, targets, nodes, i, tgt) ==
    IF i > Len(nodes) THEN <<>>
    ELSE LET head == Scoped(caster, targets, nodes[i], tgt)
             rest == ScopedMany(caster, targets, nodes, i + 1, tgt)
         IN  IF head = <<>> THEN rest
             ELSE IF rest = <<>> THEN head
             ELSE head \o <<NL>> \o rest

Scoped(caster, targets, node, tgt) ==
    CASE node.type \in {"root", "target_iteration"} ->
            ScopedMany(caster, targets, node.kids, 1,
                       BranchTarget(caster, targets, node, tgt))
      [] node.type = "attack" ->
            BaseSentence(caster, node, tgt) \o <<NL>> \o
            ScopedMany(caster, targets, node.kids, 1, tgt)
      [] OTHER -> BaseSentence(caster, node, tgt)

\* C2: every node is rendered with the target of its nearest enclosing
\* target_iteration branch, and the current target is back to its value on
\* entry once a branch (and so the whole tree) is left.
C2_TargetScoped ==
    pc = "done" =>
        /\ res.err = ""
        /\ ~res.isNone
        /\ res.text = Scoped(arg.caster, arg.targets, arg.tree, NONE)
        /\ res.cur = NONE

\* two sibling branches with different indices, each rendered for its own
\* target
C2_Witness ==
    /\ pc = "done"
    /\ Len(arg.tree.kids) = 2
    /\ arg.tree.kids[1] = [IterIndex(0) EXCEPT !.kids = <<Damage(7)>>]
    /\ arg.tree.kids[2] = [IterIndex(1) EXCEPT !.kids = <<Damage(7)>>]
    /\ res.text = <<"Orc", " took ", "7", " damage.", NL,
                    "Elf", " took ", "7", " damage.">>

\* C12: when rendering starts the current target is the caster's name, so a
\* node outside every target_iteration is rendered with the caster's name as
\* its target.
C12_InitialTargetIsCaster ==
    pc = "done" =>
        /\ res.err = ""
        /\ res.text = Scoped(arg.caster, arg.targets, arg.tree, arg.caster)

(***************************************************************************)
(* SpecLines: the lines of the narration over trees of attack, save,       *)
(* check and damage nodes and nodes of no known type.                      *)
(***************************************************************************)
LineLeaves == {Damage(7), Node("unknown")}

LineInner ==
    {Attack(TRUE, FALSE), Save(<<"d", "e", "x", "S", "a", "v", "e">>, FALSE),
     Check("Stealth", TRUE, NONE)}

InitLines ==
    /\ SessionIdle
    /\ \E n \in 0..MaxNodes : \E d \in [1..n -> 1..n] :
          /\ ValidShape(d)
          /\ \E l \in [1..n -> LineLeaves \cup LineInner] :
                /\ LeavesOk(d, l, LineLeaves)
                /\ arg = [caster |-> "Ann", targets |-> <<"Orc", "Elf">>,
                          tree |-> Root(<<[IterIndex(0) EXCEPT
                                             !.kids = Unflatten(d, l, 1, n)]>>)]
    /\ res = Failed("", NONE)
    /\ pc = "call"

NextLines == StringifyCall

SpecLines == InitLines /\ [][NextLines]_vars

\* the text has no empty line and does not end with a newline
NoEmptyLine(text) ==
    /\ \A i \in 1..Len(text) : text[i] = NL => (i > 1 /\ i < Len(text))
    /\ \A i \in 1..(Len(text) - 1) : ~(text[i] = NL /\ text[i + 1] = NL)

\* C8: the narration of a tree is the newline-join of non-empty lines: no
\* empty line and no newline at the end, also when an attack, save or check
\* node has no children or only children that render empty; an attack that
\* hit with one damage child of 7 renders as the two lines of the example.
C8_NoEmptyLines ==
    pc = "done" =>
        /\ res.err = ""
        /\ NoEmptyLine(res.text)
        /\ arg.tree.kids[1].kids = <<[Attack(TRUE, FALSE) EXCEPT !.kids = <<Damage(7)>>]>>
              => res.text = <<"Ann", " attacked ", "Orc", " ", "and hit.", NL,
                              "Orc", " took ", "7", " damage.">>

(***************************************************************************)
(* SpecRun: stringify_automation_run on one automation run in a log that   *)
(* holds the triggering message and candidate display messages before and  *)
(* after it.                                                               *)
(***************************************************************************)
MaxDisplays == 2

\* an attack node without its "did_crit" key: no case pattern matches it
AttackLackingKey == [Attack(TRUE, FALSE) EXCEPT !.complete = FALSE]

RunTrees ==
    {AttackTree,
     Root(<<>>),
     Node("unknown"),
     AttackLackingKey,
     Root(<<[IterIndex(0) EXCEPT !.kids = <<Node("unknown"), Damage(7)>>]>>),
     Damage(7)}

\* candidate display messages, without their message id
DisplayPalette ==
    {[Message(0, AVRAE_ID, TRUE, <<>>) EXCEPT
         !.embeds = <<Embed(<<"Ann", " attacks!">>, <<"Elf">>)>>],
     [Message(0, AVRAE_ID, TRUE, <<>>) EXCEPT
         !.embeds = <<Embed(<<"An attack!">>, <<"Orc", "Elf">>)>>],
     [Message(0, AVRAE_ID, TRUE, <<>>) EXCEPT
         !.embeds = <<Embed(<<"An attack!">>, <<"Elf">>)>>],
     [Message(0, AVRAE_ID, TRUE, <<"x">>) EXCEPT
         !.embeds = <<Embed(<<"Ann", " attacks!">>, <<"Orc">>)>>],
     [Message(0, "u3", FALSE, <<>>) EXCEPT
         !.embeds = <<Embed(<<"Ann", " attacks!">>, <<"Orc">>)>>],
     [Message(0, AVRAE_ID, TRUE, <<>>) EXCEPT
         !.embeds = <<[Embed(<<"Ann", " attacks!">>, <<"Orc">>) EXCEPT
                          !.has_fields = FALSE]>>],
     [Message(0, AVRAE_ID, TRUE, <<>>) EXCEPT
         !.embeds = <<Embed(<<"Ann", " attacks!">>, <<"Orc">>),
                      Embed(<<"Ann", " attacks!">>, <<"Orc">>)>>]}

RunTargets == {<<Orc(20)>>, <<Orc(20), Unresolved("Elf")>>}

\* the displays numbered by their place: k of them precede the triggering
\* message (id 10), the others follow the run
RunLog(ds, k, run) ==
    [i \in 1..k |-> [ds[i] EXCEPT !.message_id = i, !.interaction_id = i]]
        \o Interaction(10, "u1", Ann, <<run>>)
        \o [i \in 1..(Len(ds) - k) |->
               [ds[k + i] EXCEPT !.message_id = 10 + i, !.interaction_id = 10 + i]]

InitRun ==
    /\ SessionIdle
    /\ \E ds \in SeqsUpTo(DisplayPalette, MaxDisplays) :
       \E k \in 0..Len(ds) :
       \E caster \in {Ann, NoActor} :
       \E targets \in RunTargets :
       \E tree \in RunTrees :
           LET run == AutomationRun(10, caster, targets, tree)
           IN  arg = [events |-> RunLog(ds, k, run), event |-> run]
    /\ res = Raise("")
    /\ pc = "call"

StringifyAutomationRunCall ==
    /\ pc = "call"
    /\ res' = stringify_automation_run(arg.events, arg.event)
    /\ pc' = "done"
    /\ UNCHANGED <<sessionVars, arg>>

NextRun == StringifyAutomationRunCall

SpecRun == InitRun /\ [][NextRun]_vars

\* no case pattern of stringify matches the node
Unrecognized(node) ==
    \/ ~node.complete
    \/ node.type \notin {"root", "condition", "spell", "target",
                         "target_iteration", "attack", "save", "damage",
                         "temphp", "ieffect", "remove_ieffect", "check"}

\* the display messages of the run: the positions (1-based) after the
\* triggering message that satisfy the lookup's conditions
DisplaysOf(evs, event) ==
    {p \in 1..Len(evs) :
        /\ p > GroupMessage(evs, event.interaction_id)
        /\ evs[p].event_type = "message"
        /\ evs[p].author_id = AVRAE_ID
        /\ evs[p].content = <<>>
        /\ Len(evs[p].embeds) = 1
        /\ evs[p].embeds[1].has_title
        /\ evs[p].embeds[1].has_fields
        /\ \/ \E i \in 1..Len(evs[p].embeds[1].title) :
                 evs[p].embeds[1].title[i] = event.caster.name
           \/ \A j \in 1..Len(event.targets) :
                 \E f \in 1..Len(evs[p].embeds[1].fields) :
                    evs[p].embeds[1].fields[f] = event.targets[j].name}

\* the title prefix of the narration
TitlePrefix(evs, event) ==
    IF DisplaysOf(evs, event) = {} THEN <<>>
    ELSE evs[Min(DisplaysOf(evs, event))].embeds[1].title \o <<NL>>

\* C11: a node of unrecognized shape renders as empty text and raises no
\* error, also at the root: for a run (with a caster) whose whole tree is
\* unrecognized, stringify_automation_run returns the title prefix, if any,
\* followed by empty text.
C11_UnrecognizedEmpty ==
    (/\ pc = "done"
     /\ arg.event.caster.shape # "none"
     /\ Unrecognized(arg.event.automation_result[1]))
        => /\ res.ok
           /\ res.val.text = TitlePrefix(arg.events, arg.event)

(***************************************************************************)
(* SpecLists: normalize_actor on combatants of every class carrying lists  *)
(* of effects, attacks, spells and actions.                                *)
(***************************************************************************)
MaxNames == 3

ListNames == {"Bite", "Claw"}

\* the spellbook with the names xs, prepared as mask says
Spellbook(xs, mask) == [i \in 1..Len(xs) |-> [name |-> xs[i], prepared |-> mask[i]]]

InitLists ==
    /\ events = <<>>
    /\ triples = <<>>
    /\ characters = <<>>
    /\ utterance_history = <<>>
    /\ out = <<>>
    /\ num_triples_in = 0
    /\ pos = 0
    /\ last = "none"
    /\ ret = <<>>
    /\ hashseed \in HashSeeds
    /\ \E kind \in {"player", "monster", "group", "common"} :
       \E xs \in SeqsUpTo(ListNames, MaxNames) :
       \E ys \in SeqsUpTo(ListNames, MaxNames) :
       \E mask \in [1..Len(xs) -> BOOLEAN] :
           arg = [actor |->
                    [BlankActor EXCEPT
                        !.shape = "combatant", !.kind = kind, !.name = "Rex",
                        !.hp = Some(9), !.max_hp = Some(20),
                        !.race = "Elf", !.class_ = "Wizard 3",
                        !.description = "tall", !.monster_name = "Orc",
                        !.controller_id = 7,
                        !.attacks = xs, !.effects = ys,
                        !.spells = Spellbook(xs, mask), !.actions = ys]]
    /\ res = Raise("")
    /\ pc = "call"

NormalizeListsCall ==
    /\ pc = "call"
    /\ res' = normalize_actor(arg.actor, <<>>)
    /\ pc' = "done"
    /\ UNCHANGED <<sessionVars, arg>>

NextLists == NormalizeListsCall

SpecLists == InitLists /\ [][NextLists]_vars

\* text is the names of the list joined by ", ", each distinct name once
SetJoined(text, names) ==
    LET k == Cardinality(Range(names))
    IN  /\ Len(text) = IF k = 0 THEN 0 ELSE 2 * k - 1
        /\ \A i \in 1..Len(text) :
              IF i % 2 = 0 THEN text[i] = ", " ELSE text[i] \in Range(names)
        /\ \A n \in Range(names) :
              Cardinality({i \in 1..Len(text) : text[i] = n}) = 1

\* C13: attacks, spells, actions and effects are each the ", "-joined names
\* with set semantics: a name that occurs several times in the list appears
\* once; the field is the empty string when there is no name.
C13_ListsAreSets ==
    pc = "done" =>
        /\ res.ok
        /\ SetJoined(res.val.attacks, arg.actor.attacks)
        /\ SetJoined(res.val.spells, PreparedNames(arg.actor.spells))
        /\ SetJoined(res.val.effects, arg.actor.effects)
        /\ arg.actor.kind = "player" =>
              /\ ~res.val.actions.isNone
              /\ SetJoined(res.val.actions.text, arg.actor.actions)

\* class, description and actions of the record are all null
OthersNull(rec) ==
    /\ rec.class_ = NONE
    /\ rec.description = NONE
    /\ rec.actions.isNone

\* C14 as stated: class, race, description and actions are set only for a
\* player; a group has race "Group" and the other three null; any other
\* combatant, a monster included, has all four null.
C14_NullUnlessPlayer ==
    pc = "done" =>
        /\ res.ok
        /\ arg.actor.kind = "group" =>
              res.val.race = "Group" /\ OthersNull(res.val)
        /\ arg.actor.kind \notin {"player", "group"} =>
              res.val.race = NONE /\ OthersNull(res.val)

\* C14 amended: class, description and actions are set only for a player; a
\* group has race "Group", a monster has its monster name as race, and both
\* have the other three null; any other combatant has all four null.
C14_MonsterRace ==
    pc = "done" =>
        /\ res.ok
        /\ arg.actor.kind = "player" =>
              /\ res.val.race = arg.actor.race
              /\ res.val.class_ = arg.actor.class_
              /\ res.val.description = arg.actor.description
              /\ ~res.val.actions.isNone
        /\ arg.actor.kind = "group" =>
              res.val.race = "Group" /\ OthersNull(res.val)
        /\ arg.actor.kind = "monster" =>
              res.val.race = arg.actor.monster_name /\ OthersNull(res.val)
        /\ arg.actor.kind = "common" =>
              res.val.race = NONE /\ OthersNull(res.val)

\* a monster with a monster name, attacks and effects came back with that
\* name as race
C14_Witness ==
    /\ pc = "done"
    /\ arg.actor.kind = "monster"
    /\ arg.actor.attacks # <<>>
    /\ res.ok
    /\ res.val.race = "Orc"
    /\ res.val.actions.isNone

(***************************************************************************)
(* SpecProxy: normalize_message on a user message followed, at some        *)
(* distance, by messages that repeat a part of it.                         *)
(***************************************************************************)
MaxContent == 10

\* n times the letter "a"
Letters(n) == [i \in 1..n |-> "a"]

\* the messages before the candidates: gap messages of the same author
Filler(gap) == [i \in 1..gap |-> Message(100 + i, "u1", FALSE, <<"z">>)]

Gaps == {0, ProxyWindow - 2, ProxyWindow - 1}

InitProxy ==
    /\ SessionIdle
    /\ \E n \in 1..MaxContent : \E k \in 0..n : \E j \in 0..n :
       \E gap \in Gaps : \E bot \in BOOLEAN :
           LET msg == Message(1, "u1", FALSE, Letters(n))
               first == IF j = 0 THEN <<>>
                        ELSE <<Message(200, "u2", TRUE, Letters(j))>>
               second == IF k = 0 THEN <<Message(201, "u2", TRUE, <<"b">>)>>
                         ELSE <<Message(201, "u2", bot, Letters(k))>>
           IN  arg = [events |-> <<msg>> \o Filler(gap) \o first \o second,
                      msg |-> msg]
    /\ res = Raise("")
    /\ pc = "call"

NormalizeMessageCall ==
    /\ pc = "call"
    /\ res' = normalize_message(arg.events, arg.msg, FALSE)
    /\ pc' = "done"
    /\ UNCHANGED <<sessionVars, arg>>

NextProxy == NormalizeMessageCall

SpecProxy == InitProxy /\ [][NextProxy]_vars

\* the proxy candidate of the message: the first later message within the
\* window that a bot of another author wrote and whose non-empty content is
\* part of the message's content
Candidate(evs, msg) ==
    LET at == {p \in 2..Min({Len(evs), ProxyWindow}) :
                  /\ evs[p].author_id # msg.author_id
                  /\ evs[p].author_bot
                  /\ evs[p].content # <<>>
                  /\ Contains(msg.content, evs[p].content)}
    IN  IF at = {} THEN NoEvent ELSE evs[Min(at)]

C15_WitnessReplaced ==
    /\ pc = "done"
    /\ Len(arg.msg.content) = 10
    /\ Candidate(arg.events, arg.msg) # NoEvent
    /\ Len(Candidate(arg.events, arg.msg).content) = 8
    /\ res.ok
    /\ res.val = Letters(8)

\* the rendering of the run's tree: empty for a tree of unrecognized shape
RenderedTree(event) ==
    IF Unrecognized(event.automation_result[1]) THEN <<>>
    ELSE stringify_tree(event.caster.name, TargetNames(event),
                        event.automation_result[1]).text

\* C20: stringify_automation_run (on a run with a caster) returns narration
\* and display message: when a display message of the run is found, the
\* embed's title, a newline and the rendered tree, with the message; when
\* none is found, the rendered tree alone with a null message, and no error
\* is raised.
C20_DisplayOrNull ==
    (pc = "done" /\ arg.event.caster.shape # "none") =>
        LET ds == DisplaysOf(arg.events, arg.event)
        IN  /\ res.ok
            /\ res.val.text =
                  TitlePrefix(arg.events, arg.event) \o RenderedTree(arg.event)
            /\ res.val.embed_event =
                  IF ds = {} THEN NoEvent ELSE arg.events[Min(ds)]

(***************************************************************************)
(* SpecSnippet: normalize_command_group on groups of one command and up to *)
(* MaxSnippets snippet resolutions; the text has no quote and no backslash.*)
(***************************************************************************)
MaxSnipLen == 6

MaxSnippets == 2

SnipAlphabet == {"a", "b", " "}

\* name and expansion of the resolutions: an expansion of two words, one
\* that is the name of another snippet, and a name of two letters
SnipPalette ==
    {SnippetResolution(1, <<"a">>, <<"x", " ", "y">>),
     SnippetResolution(1, <<"b">>, <<"a">>),
     SnippetResolution(1, <<"a", "b">>, <<"z">>)}

InitSnippet ==
    /\ SessionIdle
    /\ \E c \in SeqsUpTo(SnipAlphabet, MaxSnipLen) :
       \E p \in {<<"!">>, <<"b">>} :
       \E sn \in SeqsUpTo(SnipPalette, MaxSnippets) :
           arg = [group |-> <<Message(1, "u1", FALSE, c),
                              Command(1, "u1", p, c, NoActor)>> \o sn]
    /\ res = NoneText
    /\ pc = "call"

NormalizeSnippetsCall ==
    /\ pc = "call"
    /\ res' = normalize_command_group(arg.group)
    /\ pc' = "done"
    /\ UNCHANGED <<sessionVars, arg>>

NextSnippet == NormalizeSnippetsCall

SpecSnippet == InitSnippet /\ [][NextSnippet]_vars

\* the places (1-based) where a token of the text starts
TokenStarts(s) ==
    {i \in 1..Len(s) : s[i] # " " /\ (i = 1 \/ s[i - 1] = " ")}

\* the token that starts at place i
TokenAt(s, i) ==
    SubSeq(s, i, Min({j \in i..Len(s) : j = Len(s) \/ s[j + 1] = " "}))

\* the k-th smallest element of a set of numbers
KthOf(S, k) == CHOOSE x \in S : Cardinality({y \in S : y < x}) = k - 1

\* the tokens of the text, in order
TokensOf(s) ==
    [k \in 1..Cardinality(TokenStarts(s)) |-> TokenAt(s, KthOf(TokenStarts(s), k))]

\* the tokens once the first k resolutions are applied, one after the other
RECURSIVE TokensAfter(_, _, _)
TokensAfter(tokens, resolutions, k) ==
    IF k = 0 THEN tokens
    ELSE LET prev == TokensAfter(tokens, resolutions, k - 1)
             name == resolutions[k].snippet_name
         IN  [i \in 1..Len(prev) |->
                 IF prev[i] = name /\ \A j \in 1..(i - 1) : prev[j] # name
                 THEN resolutions[k].content_after
                 ELSE prev[i]]

\* the text is the tokens with one space between neighbours
SingleSpaced(text, tokens) ==
    /\ Len(text) = (IF tokens = <<>> THEN 0 ELSE Len(tokens) - 1)
                   + Len(Concat(tokens))
    /\ \A k \in 1..Len(tokens) :
          LET at == Len(Concat(SubSeq(tokens, 1, k - 1))) + k
          IN  /\ StartsAt(text, tokens[k], at)
              /\ k < Len(tokens) => text[at + Len(tokens[k])] = " "

\* C21: with snippet resolutions in the group the prefix-normalized text is
\* split into tokens and, resolution by resolution in group order, the first
\* token equal to the snippet's name becomes its expansion (a token that only
\* contains the name, a later token equal to it and a name no token equals
\* change nothing); the result is the tokens joined by single spaces.
\* Without a resolution the text keeps its whitespace.
C21_SnippetFirstToken ==
    pc = "done" =>
        LET command == arg.group[2]
            resolutions == SubSeq(arg.group, 3, Len(arg.group))
            content == normalize_prefix(command.content, command.prefix)
        IN  /\ ~res.isNone
            /\ resolutions = <<>> => res.text = content
            /\ resolutions # <<>> =>
                  SingleSpaced(res.text,
                               TokensAfter(TokensOf(content), resolutions,
                                           Len(resolutions)))

\* the text "ab a a" with the resolution of "a": the token "ab" and the
\* second "a" are left, the first "a" is expanded
C21_Witness ==
    /\ pc = "done"
    /\ arg.group[2].content = <<"a", "b", " ", "a", " ", "a">>
    /\ arg.group[2].prefix = <<"!">>
    /\ Len(arg.group) = 3
    /\ arg.group[3].snippet_name = <<"a">>
    /\ res = Text(<<"a", "b", " ", "x", " ", "y", " ", "a">>)

====
